---- MODULE Spec2Model ----
(***************************************************************************)
(* Model of the workwise backend: the POST /parse-resume ingestion         *)
(* pipeline (content-hash parse cache, parser provider call, application   *)
(* record builder) and the GET /get-resume read path, over the remote      *)
(* persistence tables they share.                                          *)
(*                                                                         *)
(* The persistence backend and the parser provider are remote services.    *)
(* Every call to one of them is one step of the request that makes it, so  *)
(* requests served by different workers interleave between calls.  A       *)
(* select without an order clause returns its rows in an unspecified       *)
(* order, modelled as a nondeterministic choice of the order.              *)
(*                                                                         *)
(* Python dicts are functions whose DOMAIN is the set of keys present; a   *)
(* column that is NULL in a table row is a key that is absent.             *)
(***************************************************************************)
EXTENDS Integers, Sequences, FiniteSets, TLC

VARIABLES
    parsed_resumes,           \* table parsed_resumes: id -> row
    resumes,                  \* table resumes (the Applications): id -> row
    professional_experiences, \* table professional_experiences: id -> row
    experience_points,        \* table experience_points: id -> row
    ai_requests_log,          \* table ai_requests_log: id -> row
    req,                      \* the parse-resume requests in flight: slot -> locals
    providerCalls,            \* parser provider invocations per content hash
    started,                  \* number of parse-resume requests started so far
    fetched,                  \* the response to a GET /get-resume or a GET
                              \* /parsed-resumes just answered (empty once any
                              \* other step has been taken)
    ana,                      \* the analysis and editing requests in flight:
                              \* client -> locals
    credits,                  \* user_profiles.remaining_ai_credits: user -> credits
    checked,                  \* the response to a GET /check-analysis just answered
    request_counts,           \* RateLimitMiddleware.request_counts: address -> times
    now,                      \* the clock time.time() reads
    dispatched,               \* the requests the middleware has answered, in order
    auth_users,               \* the emails that have an auth user
    user_profiles,            \* the emails that have a user_profiles row
    su                        \* the signup requests in flight: client -> locals

vars == <<parsed_resumes, resumes, professional_experiences, experience_points,
          ai_requests_log, req, providerCalls, started, fetched, ana, credits,
          checked, request_counts, now, dispatched, auth_users, user_profiles, su>>

\* The state of the rate limiter and of the signup, which the ingestion and
\* the analysis endpoints leave alone.
rateVars == <<request_counts, now, dispatched>>
signupVars == <<auth_users, user_profiles, su>>

\* The state of the analysis endpoints, which the ingestion leaves alone.
analysisVars == <<ana, credits, checked, rateVars, signupVars>>

tables == <<parsed_resumes, resumes, professional_experiences, experience_points,
            ai_requests_log>>

----------------------------------------------------------------------------
(* Bounds *)

MaxRequests == 2   \* parse-resume requests started in one behaviour

RateLimitRequests == 2   \* rate_limit_requests the middleware is built with
RateLimitWindow == 2     \* rate_limit_window the middleware is built with
MaxTime == 4             \* the clock stops here
MaxDispatches == 4       \* requests that reach the middleware in one behaviour


----------------------------------------------------------------------------
(* Input domains *)

Users == {"u1", "u2"}

\* Each client has at most one parse-resume request in flight; requests of
\* different clients run concurrently.  A request is named by its client.
Reqs == Users

\* Raw uploads (byte strings).
Contents == {"B1", "B2"}

Filenames == {"cv.pdf", "cv.exe"}

Forms == { [companyApplied |-> "Acme", roleApplied |-> "Engineer",
            jobDescription |-> "Build things"],
           [companyApplied |-> "Initech", roleApplied |-> "Analyst",
            jobDescription |-> "Count things"] }

None == "None"

\* Optional[T]: the empty set is None, {x} is the value x.
NoneOpt == {}
Some(x) == {x}
TheValue(opt) == CHOOSE x \in opt : TRUE

\* Python truthiness of an Optional[int]
Truthy(opt) == opt # NoneOpt /\ opt # Some(0)

\* An upload: the file's bytes and its declared filename.
Uploads == [content : Contents, filename : Filenames]

\* The values of the parsed_resume_id form field.
ParsedResumeIds == {NoneOpt, Some(0), Some(1), Some(2)}

----------------------------------------------------------------------------
(* Python helpers *)

\* dict.get(k, default)
DictGet(d, k, default) == IF k \in DOMAIN d THEN d[k] ELSE default

\* {**old, **new}: the keys of new win
DictMerge(old, new) == new @@ old

EmptyDict == <<>>

\* hashlib.md5(content).hexdigest()
Md5(content) ==
    CASE content = "B1" -> "900150983cd24fb0"
      [] content = "B2" -> "d41d8cd98f00b204"

Hashes == { Md5(c) : c \in Contents }

\* Path(filename).suffix.lower()
Suffix(filename) ==
    CASE filename = "cv.pdf" -> ".pdf"
      [] filename = "cv.exe" -> ".exe"

SUPPORTED_EXTENSIONS == {".pdf", ".docx", ".txt", ".rtf"}

\* ResumeParser._extract_text: the text of a well-formed upload
ExtractText(content) ==
    CASE content = "B1" -> "Ann, engineer"
      [] content = "B2" -> "Bob, analyst"

\* All orders in which a select without an order clause can return `rows`.
Orders(rows) ==
    { s \in [1..Cardinality(rows) -> rows] :
        \A i, j \in 1..Cardinality(rows) : i # j => s[i] # s[j] }

\* The next value of a serial primary key.
NextId(table) == Cardinality(DOMAIN table) + 1

\* insert(row): the table with the row added under a fresh id
Insert(table, row) == (NextId(table) :> ([id |-> NextId(table)] @@ row)) @@ table

----------------------------------------------------------------------------
(* What the parser provider can answer *)

SecContact == [type |-> "contact_information", content |-> "{name: Ann}"]
SecSummary == [type |-> "executive summary", content |-> "Seasoned engineer"]
SecSummaryUnderscore == [type |-> "executive_summary", content |-> "Careful analyst"]
SecEducation == [type |-> "education", entries |-> <<[institution |-> "MIT"]>>]
SecSkillsA == [type |-> "skills", entries |-> <<[technical_skills |-> "python"]>>]
SecSkillsB == [type |-> "skills", entries |-> <<[technical_skills |-> "cobol"]>>]
SecCertificates == [type |-> "certificates", entries |-> <<[name |-> "AWS"]>>]
SecMisc == [type |-> "miscellaneous", entries |-> <<[label |-> "lang", value |-> "fr"]>>]
SecProjects == [type |-> "personal_projects", entries |-> <<[project_name |-> "bot"]>>]
SecNoEntries == [type |-> "education"]

\* two entries; both have the bullet "led team", the first has a second bullet
SecExperience ==
    [type |-> "professional_experience",
     entries |-> << [organization |-> "Acme", role |-> "Dev", duration |-> "2y",
                     location |-> "NYC", organization_description |-> "maker",
                     points |-> <<"led team", "cut costs">>],
                    [organization |-> "Bolt", role |-> "Lead",
                     points |-> <<"led team">>] >>]
\* entries without bullets: the key absent, and an empty list
SecExperienceNoPoints ==
    [type |-> "professional_experience",
     entries |-> << [organization |-> "Core"],
                    [organization |-> "Dyn", role |-> "QA", points |-> <<>>] >>]
SecExperienceEmpty == [type |-> "professional_experience", entries |-> <<>>]

Doc(sections) == [content |-> [sections |-> sections]]

\* The provider's message content: either text that json.loads rejects, or
\* the JSON document it holds.
ProviderOutputs ==
    { [valid_json |-> TRUE,
       json |-> Doc(<<SecContact, SecSummary, SecExperience, SecEducation,
                      SecSkillsA, SecSkillsB>>)],
      [valid_json |-> TRUE,
       json |-> Doc(<<SecSummaryUnderscore, SecExperienceNoPoints, SecCertificates,
                      SecMisc, SecProjects, SecNoEntries, SecEducation>>)],
      [valid_json |-> TRUE,
       json |-> Doc(<<SecSkillsB, SecExperienceEmpty>>)],
      [valid_json |-> TRUE, json |-> [content |-> [note |-> "no sections"]]],
      [valid_json |-> TRUE, json |-> [sections |-> <<SecContact>>]],
      [valid_json |-> FALSE, json |-> EmptyDict] }

\* A validation that accepts any JSON document, with or without 'content'.
ProcessParsingResponseLenient(out) ==
    IF ~out.valid_json
    THEN [raised |-> TRUE, parsed_data |-> EmptyDict, error |-> "JSONDecodeError"]
    ELSE [raised |-> FALSE, parsed_data |-> out.json, error |-> None]

\* ResumeParserService._process_parsing_response: the parsed document, or a
\* raise (json.JSONDecodeError, or ValueError for a missing 'content' key).
ProcessParsingResponse(out) ==
    IF ~out.valid_json
    THEN [raised |-> TRUE, parsed_data |-> EmptyDict, error |-> "JSONDecodeError"]
    ELSE IF "content" \notin DOMAIN out.json
         THEN [raised |-> TRUE, parsed_data |-> EmptyDict,
               error |-> "Invalid response format: missing 'content' key"]
         ELSE [raised |-> FALSE, parsed_data |-> out.json, error |-> None]

----------------------------------------------------------------------------
(* Application record builder: the pure part *)

\* parsed_data.get('content', {}).get('sections', [])
SectionsOf(parsed_data) ==
    DictGet(DictGet(parsed_data, "content", EmptyDict), "sections", <<>>)

\* A builder in which the last matching section wins instead of the first.
LastOfType(sections, type, key, default) ==
    LET hits == { i \in 1..Len(sections) : DictGet(sections[i], "type", None) = type }
    IN  IF hits = {} THEN default
        ELSE LET last == CHOOSE i \in hits : \A j \in hits : i >= j
             IN  DictGet(sections[last], key, default)

\* next((s.get(key, default) for s in sections if s.get('type') == type), default)
FirstOfType(sections, type, key, default) ==
    LET hits == { i \in 1..Len(sections) : DictGet(sections[i], "type", None) = type }
    IN  IF hits = {} THEN default
        ELSE LET first == CHOOSE i \in hits : \A j \in hits : i <= j
             IN  DictGet(sections[first], key, default)

\* The section type looked up for the executive_summary column.
ExecutiveSummaryType == "executive summary"

\* update_data of parse_resume
UpdateData(sections) ==
    [contact_information |-> FirstOfType(sections, "contact_information", "content", "{}"),
     education |-> FirstOfType(sections, "education", "entries", <<>>),
     skills |-> FirstOfType(sections, "skills", "entries", <<>>),
     certificates |-> FirstOfType(sections, "certificates", "entries", <<>>),
     miscellaneous |-> FirstOfType(sections, "miscellaneous", "entries", <<>>),
     executive_summary |-> FirstOfType(sections, ExecutiveSummaryType, "content", ""),
     personal_projects |-> FirstOfType(sections, "personal_projects", "entries", <<>>)]

\* prof_exp of parse_resume
ProfExp(sections) == FirstOfType(sections, "professional_experience", "entries", <<>>)

\* exp_data of parse_resume
ExpData(resume_id, exp) ==
    [resume_id |-> resume_id,
     organization |-> DictGet(exp, "organization", ""),
     role |-> DictGet(exp, "role", ""),
     duration |-> DictGet(exp, "duration", ""),
     location |-> DictGet(exp, "location", ""),
     organization_description |-> DictGet(exp, "organization_description", "")]

\* 'points' in exp and exp['points']
HasPoints(exp) == "points" \in DOMAIN exp /\ Len(exp.points) > 0

\* A header in which the company and role form fields are swapped.
InitialResumeDataSwapped(user_id, form) ==
    [user_id |-> user_id,
     job_description |-> form.jobDescription,
     company_applied |-> form.roleApplied,
     role_applied |-> form.companyApplied,
     status |-> "Writing CV",
     parsing_status |-> "completed",
     analysis_status |-> "pending"]

\* initial_resume_data of parse_resume
InitialResumeData(user_id, form) ==
    [user_id |-> user_id,
     job_description |-> form.jobDescription,
     company_applied |-> form.companyApplied,
     role_applied |-> form.roleApplied,
     status |-> "Writing CV",
     parsing_status |-> "completed",
     analysis_status |-> "pending"]

----------------------------------------------------------------------------
(* State *)

IdleReq ==
    [pc |-> "idle", user_id |-> None, resume |-> NoneOpt, parsed_resume_id |-> NoneOpt,
     form |-> CHOOSE f \in Forms : TRUE,
     file_hash |-> None, existing_parse |-> NoneOpt, parsed_data |-> EmptyDict,
     parse_status |-> None, parse_error |-> None, original_filename |-> None,
     resume_id |-> 0, prof_exp |-> <<>>, i |-> 0, exp_id |-> 0,
     path |-> None, failed_at |-> None, response |-> EmptyDict]

\* The locals of an analysis request that has not started.
IdleAnalysis ==
    [pc |-> "idle", endpoint |-> None, header |-> NoneOpt, user_id |-> None,
     resume_id |-> 0, resume_data |-> EmptyDict, analysis |-> <<>>, error |-> None,
     provider_called |-> FALSE, validated |-> FALSE, logged |-> <<>>,
     credits_before |-> 0, credit_check |-> None, body |-> EmptyDict,
     context |-> EmptyDict, response |-> EmptyDict]

\* remaining_ai_credits of a new user profile
InitialCredits == 10

\* The addresses requests come from.
ClientIps == {"ip1", "ip2"}

\* The locals of a signup request that has not started.
IdleSignup == [pc |-> "idle", email |-> NoneOpt, response |-> EmptyDict]

\* The rate limiter after construction, and no user signed up.
InitAccounts ==
    /\ request_counts = [ip \in ClientIps |-> <<>>]
    /\ now = 0
    /\ dispatched = <<>>
    /\ auth_users = {}
    /\ user_profiles = {}
    /\ su = [c \in Users |-> IdleSignup]

Init ==
    /\ parsed_resumes = <<>>
    /\ resumes = <<>>
    /\ professional_experiences = <<>>
    /\ experience_points = <<>>
    /\ ai_requests_log = <<>>
    /\ req = [r \in Reqs |-> IdleReq]
    /\ providerCalls = [h \in Hashes |-> 0]
    /\ started = 0
    /\ fetched = EmptyDict
    /\ ana = [c \in Users |-> IdleAnalysis]
    /\ credits = [u \in Users |-> InitialCredits]
    /\ checked = EmptyDict
    /\ InitAccounts

----------------------------------------------------------------------------
(* POST /parse-resume *)

\* except Exception as e: raise HTTPException(status_code=500, detail=str(e))
ErrorResponse(detail) == [status_code |-> 500, detail |-> detail]

\* A flag for which only a request by parsed_resume_id counts as a reuse.
IsReusedByIdOnly(parsed_resume_id, existing_parse) == parsed_resume_id # NoneOpt

\* "is_reused": parsed_resume_id is not None or existing_parse.data is not None
IsReused(parsed_resume_id, existing_parse) ==
    parsed_resume_id # NoneOpt \/ existing_parse # NoneOpt

\* the return value of parse_resume
SuccessResponse(q) ==
    [status_code |-> 200, status |-> "success", resume_id |-> q.resume_id,
     is_reused |-> IsReused(q.parsed_resume_id, q.existing_parse)]

Raise(q, detail) ==
    [q EXCEPT !.pc = "done", !.failed_at = q.pc, !.response = ErrorResponse(detail)]

Return(q) == [q EXCEPT !.pc = "done", !.response = SuccessResponse(q)]

\* The request enters the handler: services are built and the upload is read.
StartParseResume(user_id, resume, parsed_resume_id, form) ==
    LET r == user_id IN
    /\ req[r].pc \in {"idle", "done"}
    /\ started < MaxRequests
    /\ started' = started + 1
    /\ LET q == [IdleReq EXCEPT !.user_id = user_id, !.resume = resume,
                                !.parsed_resume_id = parsed_resume_id, !.form = form,
                                !.pc = "lookup"]
       IN  req' = [req EXCEPT ![r] =
                IF Truthy(parsed_resume_id) THEN [q EXCEPT !.path = "byid"]
                ELSE IF resume = NoneOpt
                     THEN Raise([q EXCEPT !.pc = "start"],
                                "Either resume file or parsed_resume_id must be provided")
                     ELSE [q EXCEPT !.file_hash = Md5(TheValue(resume).content)]]
    /\ UNCHANGED <<tables, providerCalls>>
    /\ fetched' = EmptyDict
    /\ UNCHANGED analysisVars

\* select('*').eq('id', parsed_resume_id).single()
LookupById(r) ==
    LET q == req[r]
        id == TheValue(q.parsed_resume_id)
    IN  /\ q.pc = "lookup"
        /\ q.path = "byid"
        /\ req' = [req EXCEPT ![r] =
                IF id \in DOMAIN parsed_resumes
                THEN [q EXCEPT !.parsed_data = parsed_resumes[id].parsed_data,
                               !.pc = "create"]
                ELSE Raise(q, "Parsed resume not found")]
        /\ UNCHANGED <<tables, providerCalls, started>>
        /\ fetched' = EmptyDict
        /\ UNCHANGED analysisVars

\* The rows select('*').eq('file_hash', file_hash) matches.
RowsWithHash(file_hash) ==
    { parsed_resumes[id] : id \in { k \in DOMAIN parsed_resumes :
                                      parsed_resumes[k].file_hash = file_hash } }

\* select('*').eq('file_hash', file_hash): a cache hit takes data[0]
LookupByHash(r) ==
    LET q == req[r]
    IN  /\ q.pc = "lookup"
        /\ q.path # "byid"
        /\ \E data \in Orders(RowsWithHash(q.file_hash)) :
              req' = [req EXCEPT ![r] =
                IF Len(data) > 0
                THEN [q EXCEPT !.existing_parse = Some(data),
                               !.parsed_data = data[1].parsed_data,
                               !.path = "hit", !.pc = "create"]
                ELSE [q EXCEPT !.existing_parse = Some(data),
                               !.path = "miss", !.pc = "parse"]]
        /\ UNCHANGED <<tables, providerCalls, started>>
        /\ fetched' = EmptyDict
        /\ UNCHANGED analysisVars

\* ResumeParserService.parse_resume up to the provider's answer: the text
\* extraction raises before the provider is called; otherwise the provider is
\* called once and its answer validated.
CallParser(r) ==
    LET q == req[r]
        up == TheValue(q.resume)
    IN  /\ q.pc = "parse"
        /\ IF Suffix(up.filename) \notin SUPPORTED_EXTENSIONS
           THEN /\ req' = [req EXCEPT ![r] = [q EXCEPT !.parse_status = "failed",
                                                       !.parse_error = "Unsupported file type",
                                                       !.pc = "log"]]
                /\ UNCHANGED providerCalls
           ELSE IF ExtractText(up.content) = ""
           THEN /\ req' = [req EXCEPT ![r] = [q EXCEPT !.parse_status = "failed",
                                   !.parse_error = "No text was extracted from the resume",
                                   !.pc = "log"]]
                /\ UNCHANGED providerCalls
           ELSE /\ providerCalls' = [providerCalls EXCEPT ![q.file_hash] = @ + 1]
                /\ \E out \in ProviderOutputs :
                     LET res == ProcessParsingResponse(out)
                     IN  req' = [req EXCEPT ![r] =
                            IF res.raised
                            THEN [q EXCEPT !.parse_status = "failed",
                                           !.parse_error = res.error, !.pc = "log"]
                            ELSE [q EXCEPT !.parse_status = "success",
                                           !.parsed_data = res.parsed_data,
                                           !.original_filename = up.filename,
                                           !.pc = "log"]]
        /\ UNCHANGED <<tables, started>>
        /\ fetched' = EmptyDict
        /\ UNCHANGED analysisVars

\* BaseService.log_ai_request for the parser, then the return or re-raise of
\* ResumeParserService.parse_resume.
LogParse(r) ==
    LET q == req[r]
    IN  /\ q.pc = "log"
        /\ ai_requests_log' = Insert(ai_requests_log,
                [user_id |-> q.user_id, service_name |-> "resume_parsing",
                 status |-> q.parse_status, credits_used |-> FALSE])
        /\ req' = [req EXCEPT ![r] =
                IF q.parse_status = "success" THEN [q EXCEPT !.pc = "store"]
                ELSE Raise([q EXCEPT !.pc = "parse"], q.parse_error)]
        /\ UNCHANGED <<parsed_resumes, resumes, professional_experiences,
                       experience_points, providerCalls, started>>
        /\ fetched' = EmptyDict
        /\ UNCHANGED analysisVars

\* The insert of log_ai_request raises: after a successful parse the handler
\* of parse_resume logs the failure; a failing failure log propagates.
LogParseFails(r) ==
    LET q == req[r]
    IN  /\ q.pc = "log"
        /\ req' = [req EXCEPT ![r] =
                IF q.parse_status = "success"
                THEN [q EXCEPT !.parse_status = "failed",
                               !.parse_error = "Error logging AI request"]
                ELSE Raise([q EXCEPT !.pc = "parse"], "Error logging AI request")]
        /\ UNCHANGED <<tables, providerCalls, started>>
        /\ fetched' = EmptyDict
        /\ UNCHANGED analysisVars

\* parse_store_data of parse_resume
ParseStoreData(q) ==
    [user_id |-> q.user_id, file_hash |-> q.file_hash, parsed_data |-> q.parsed_data,
     original_filename |-> q.original_filename]

\* from_('parsed_resumes').insert(parse_store_data)
StoreParsed(r) ==
    LET q == req[r]
    IN  /\ q.pc = "store"
        /\ parsed_resumes' = Insert(parsed_resumes, ParseStoreData(q))
        /\ req' = [req EXCEPT ![r] = [q EXCEPT !.pc = "create"]]
        /\ UNCHANGED <<resumes, professional_experiences, experience_points,
                       ai_requests_log, providerCalls, started>>
        /\ fetched' = EmptyDict
        /\ UNCHANGED analysisVars

\* from_('resumes').insert(initial_resume_data)
CreateResume(r) ==
    LET q == req[r]
    IN  /\ q.pc = "create"
        /\ resumes' = Insert(resumes, InitialResumeData(q.user_id, q.form))
        /\ req' = [req EXCEPT ![r] = [q EXCEPT !.resume_id = NextId(resumes),
                                               !.pc = "update"]]
        /\ UNCHANGED <<parsed_resumes, professional_experiences, experience_points,
                       ai_requests_log, providerCalls, started>>
        /\ fetched' = EmptyDict
        /\ UNCHANGED analysisVars

\* from_('resumes').update(update_data).eq('id', resume_id), then prof_exp
UpdateSections(r) ==
    LET q == req[r]
        sections == SectionsOf(q.parsed_data)
        prof_exp == ProfExp(sections)
        q2 == [q EXCEPT !.prof_exp = prof_exp, !.i = 1, !.pc = "exp"]
    IN  /\ q.pc = "update"
        /\ resumes' = [resumes EXCEPT ![q.resume_id] = DictMerge(@, UpdateData(sections))]
        /\ req' = [req EXCEPT ![r] = IF Len(prof_exp) = 0 THEN Return(q2) ELSE q2]
        /\ UNCHANGED <<parsed_resumes, professional_experiences, experience_points,
                       ai_requests_log, providerCalls, started>>
        /\ fetched' = EmptyDict
        /\ UNCHANGED analysisVars

\* The loop of parse_resume moves to its next entry, or the handler returns.
NextEntry(q) ==
    IF q.i < Len(q.prof_exp) THEN [q EXCEPT !.i = q.i + 1, !.pc = "exp"] ELSE Return(q)

\* from_('professional_experiences').insert(exp_data)
InsertExperience(r) ==
    LET q == req[r]
        exp == q.prof_exp[q.i]
        q2 == [q EXCEPT !.exp_id = NextId(professional_experiences)]
    IN  /\ q.pc = "exp"
        /\ professional_experiences' =
              Insert(professional_experiences, ExpData(q.resume_id, exp))
        /\ req' = [req EXCEPT ![r] =
                IF HasPoints(exp) THEN [q2 EXCEPT !.pc = "points"] ELSE NextEntry(q2)]
        /\ UNCHANGED <<parsed_resumes, resumes, experience_points, ai_requests_log,
                       providerCalls, started>>
        /\ fetched' = EmptyDict
        /\ UNCHANGED analysisVars

\* A points list in which only the first bullet of an entry is written.
PointsDataFirstOnly(exp_id, points) ==
    [k \in 1..1 |-> [experience_id |-> exp_id, text |-> points[k]]]

\* points_data of parse_resume
PointsData(exp_id, points) ==
    [k \in 1..Len(points) |-> [experience_id |-> exp_id, text |-> points[k]]]

\* insert(rows): a bulk insert gives the rows consecutive ids in list order
RECURSIVE InsertAll(_, _)
InsertAll(table, rows) ==
    IF Len(rows) = 0 THEN table
    ELSE InsertAll(Insert(table, Head(rows)), Tail(rows))

\* from_('experience_points').insert(points_data)
InsertPoints(r) ==
    LET q == req[r]
        exp == q.prof_exp[q.i]
    IN  /\ q.pc = "points"
        /\ experience_points' =
              InsertAll(experience_points, PointsData(q.exp_id, exp.points))
        /\ req' = [req EXCEPT ![r] = NextEntry(q)]
        /\ UNCHANGED <<parsed_resumes, resumes, professional_experiences,
                       ai_requests_log, providerCalls, started>>
        /\ fetched' = EmptyDict
        /\ UNCHANGED analysisVars

\* The steps of parse_resume that are one call to the persistence backend.
DbSteps == {"lookup", "store", "create", "update", "exp", "points"}

\* A failure path that rolls the request's Application row back.
DbFailsWithRollback(r) ==
    /\ req[r].pc \in {"lookup", "store", "create", "update", "exp", "points"}
    /\ req' = [req EXCEPT ![r] = [req[r] EXCEPT !.pc = "done", !.failed_at = req[r].pc,
                    !.response = [status_code |-> 500, detail |-> "persistence error"]]]
    /\ resumes' = [id \in DOMAIN resumes \ {req[r].resume_id} |-> resumes[id]]
    /\ UNCHANGED <<parsed_resumes, professional_experiences, experience_points,
                   ai_requests_log, providerCalls, started>>
    /\ fetched' = EmptyDict
    /\ UNCHANGED analysisVars

\* A call to the persistence backend raises; nothing is written, and the
\* handler's except clause answers 500.
DbFails(r) ==
    /\ req[r].pc \in DbSteps
    /\ req' = [req EXCEPT ![r] = Raise(req[r], "persistence error")]
    /\ UNCHANGED <<tables, providerCalls, started>>
    /\ fetched' = EmptyDict
    /\ UNCHANGED analysisVars

----------------------------------------------------------------------------
(* GET /get-resume/{resume_id} *)

\* A select returns a NULL column as None.
Column(row, k) == DictGet(row, k, None)

\* The rows select('*').eq('resume_id', resume_id) matches.
ExperiencesOf(resume_id) ==
    { professional_experiences[id] :
        id \in { k \in DOMAIN professional_experiences :
                   professional_experiences[k].resume_id = resume_id } }

\* The rows select('*').eq('experience_id', experience_id) matches.
PointsOf(experience_id) ==
    { experience_points[id] :
        id \in { k \in DOMAIN experience_points :
                   experience_points[k].experience_id = experience_id } }

\* exp['points'] of get_professional_experience, for rows returned in `order`
PointList(order) ==
    [k \in 1..Len(order) |->
        [id |-> order[k].id, text |-> order[k].text,
         relevance_score |-> Column(order[k], "relevance_score")]]

\* The orders in which the points of each experience of `eo` can come back.
PointOrders(eo) ==
    { f \in [1..Len(eo) -> UNION { Orders(PointsOf(eo[k].id)) : k \in 1..Len(eo) }] :
        \A k \in 1..Len(eo) : f[k] \in Orders(PointsOf(eo[k].id)) }

\* What get_professional_experience can return: neither select is ordered.
GetProfessionalExperience(resume_id) ==
    UNION { { [k \in 1..Len(eo) |-> [points |-> PointList(f[k])] @@ eo[k]] :
                f \in PointOrders(eo) } :
            eo \in Orders(ExperiencesOf(resume_id)) }

\* bool(v) of a column that holds a list or is NULL
TruthyList(row, k) == k \in DOMAIN row /\ Len(row[k]) > 0

\* response of ResumeService.get_resume; jd_analysis is added only when the
\* row has a non-empty one
ResumeResponse(resume_id, resume, experiences) ==
    (IF TruthyList(resume, "jd_analysis") THEN [jd_analysis |-> resume.jd_analysis]
     ELSE EmptyDict) @@
    [id |-> resume_id,
     contact_information |-> Column(resume, "contact_information"),
     education |-> Column(resume, "education"),
     skills |-> Column(resume, "skills"),
     certificates |-> Column(resume, "certificates"),
     miscellaneous |-> Column(resume, "miscellaneous"),
     executive_summary |-> Column(resume, "executive_summary"),
     professional_experience |-> experiences,
     ai_improved_sections |-> Column(resume, "ai_improved_sections"),
     job_description |-> Column(resume, "job_description"),
     company_applied |-> Column(resume, "company_applied"),
     role_applied |-> Column(resume, "role_applied"),
     status |-> Column(resume, "status"),
     personal_projects |-> Column(resume, "personal_projects"),
     summary_analysis |-> Column(resume, "summary_analysis")]

\* The route get_resume: the ownership check, then ResumeService.get_resume.
\* single() on no row either raises in the client library (500) or yields
\* no data (404), depending on the library.
GetResume(user_id, resume_id) ==
    /\ IF resume_id \notin DOMAIN resumes
       THEN \E code \in {404, 500} :
               fetched' = [status_code |-> code, detail |-> "Resume not found"]
       ELSE IF resumes[resume_id].user_id # user_id
       THEN fetched' = [status_code |-> 403,
                        detail |-> "Not authorized to access this resume"]
       ELSE \E experiences \in GetProfessionalExperience(resume_id) :
               fetched' = [status_code |-> 200,
                           body |-> ResumeResponse(resume_id, resumes[resume_id],
                                                   experiences)]
    /\ UNCHANGED <<tables, req, providerCalls, started, analysisVars>>

----------------------------------------------------------------------------
(* Authentication: the get_user_id dependency *)

\* An Authorization header, as the list of its parts between single spaces
\* (absent: None).  'Bearer' followed by a space is a first part "Bearer"
\* with at least one more part.
Token(u) == IF u = "u1" THEN "jwt-u1" ELSE "jwt-u2"

HeadersOf(c) ==
    { NoneOpt,
      Some(<<"Basic", "abc">>),
      Some(<<"bearer", Token(c)>>),
      Some(<<"Bearer", "", Token(c)>>),
      Some(<<"Bearer", "invalid_token">>),
      Some(<<"Bearer", "jwt-nosub">>),
      Some(<<"Bearer", Token(c)>>) }

\* auth_header.startswith('Bearer ')
StartsWithBearer(parts) == Len(parts) >= 2 /\ parts[1] = "Bearer"

\* jwt.decode(token, options={"verify_signature": False}): the claims of a
\* well-formed token, or a raise (None)
JwtDecode(token) ==
    CASE token = "jwt-u1" -> Some([sub |-> "u1"])
      [] token = "jwt-u2" -> Some([sub |-> "u2"])
      [] token = "jwt-nosub" -> Some([aud |-> "authenticated"])
      [] OTHER -> NoneOpt

\* A dependency that takes a token it cannot decode for an anonymous caller.
GetUserIdUndecodedIsAnonymous(header) ==
    IF header = NoneOpt \/ ~StartsWithBearer(TheValue(header))
    THEN [status_code |-> 401, detail |-> "Authorization header missing"]
    ELSE LET decoded == JwtDecode(TheValue(header)[2])
         IN  IF decoded = NoneOpt THEN [status_code |-> 200, user_id |-> None]
             ELSE [status_code |-> 200, user_id |-> DictGet(TheValue(decoded), "sub", None)]

\* get_user_id: the subject of the bearer token, or a 401
GetUserId(header) ==
    IF header = NoneOpt \/ ~StartsWithBearer(TheValue(header))
    THEN [status_code |-> 401, detail |-> "Authorization header missing"]
    ELSE LET decoded == JwtDecode(TheValue(header)[2])
         IN  IF decoded = NoneOpt
             THEN [status_code |-> 401, detail |-> "Invalid authentication token"]
             ELSE [status_code |-> 200, user_id |-> DictGet(TheValue(decoded), "sub", None)]

----------------------------------------------------------------------------
(* The analysis endpoints: shared parts *)

\* What the ingestion does not share with the analysis endpoints.
ingestVars == <<parsed_resumes, professional_experiences, experience_points, req,
                providerCalls, fetched, rateVars, signupVars>>

\* update(values).eq('id', resume_id): no row matches an id that does not exist
UpdateById(table, id, values) ==
    IF id \in DOMAIN table THEN [table EXCEPT ![id] = DictMerge(@, values)] ELSE table

\* update(values).eq('id', resume_id).eq('user_id', user_id)
UpdateByIdAndUser(table, id, user_id, values) ==
    IF id \in DOMAIN table /\ table[id].user_id = user_id
    THEN [table EXCEPT ![id] = DictMerge(@, values)] ELSE table

\* BaseService.log_ai_request: without a user_id nothing is inserted
LogAiRequest(log, user_id, service_name, status, requires_credits) ==
    IF user_id = None THEN log
    ELSE Insert(log, [user_id |-> user_id, service_name |-> service_name,
                      status |-> status, credits_used |-> requires_credits])

\* The statuses an invocation has logged, after one more log_ai_request.
Logged(a, status) == IF a.user_id = None THEN a.logged ELSE Append(a.logged, status)

\* The database function check_and_update_ai_credits: one credit is taken
\* when the user has one.
CheckAndUpdateAiCredits(c) ==
    IF c > 0 THEN [data |-> TRUE, credits |-> c - 1] ELSE [data |-> FALSE, credits |-> c]

\* The request is answered.
Answer(a, status_code, body) ==
    [a EXCEPT !.pc = "done", !.response = [status_code |-> status_code] @@ body]

\* The caller is authenticated and the handler entered, or the dependency
\* answers 401 and the handler is not run.
StartAnalysis(c, endpoint, header, resume_id, first) ==
    LET auth == GetUserId(header)
        a == [IdleAnalysis EXCEPT !.endpoint = endpoint, !.header = header]
    IN  /\ ana[c].pc \in {"idle", "done"}
        /\ started < MaxRequests
        /\ started' = started + 1
        /\ ana' = [ana EXCEPT ![c] =
              IF auth.status_code = 401
              THEN Answer(a, 401, [detail |-> auth.detail])
              ELSE [a EXCEPT !.user_id = auth.user_id, !.resume_id = resume_id,
                             !.credits_before = credits[c], !.pc = first]]
        /\ UNCHANGED <<tables, ingestVars, credits>>
        /\ checked' = EmptyDict

----------------------------------------------------------------------------
(* POST /analyze-jd/{resume_id} *)

JdItem == [line_text |-> "Build things", identified_skills |-> "building",
           has_skill |-> TRUE]

\* What the provider does on a JD analysis call: it raises, answers without
\* choices, with empty content, or with content that is text or JSON.
JdProviderOutputs ==
    { [kind |-> "raises"],
      [kind |-> "no_choices"],
      [kind |-> "empty"],
      [kind |-> "content", valid_json |-> FALSE, json |-> EmptyDict],
      [kind |-> "content", valid_json |-> TRUE, json |-> [summary |-> "good fit"]],
      [kind |-> "content", valid_json |-> TRUE,
       json |-> [jd_analysis |-> [type |-> "str", value |-> "n/a"]]],
      [kind |-> "content", valid_json |-> TRUE,
       json |-> [jd_analysis |-> [type |-> "list", value |-> <<JdItem>>]]] }

\* isinstance(analysis['jd_analysis'], list); the value under 'jd_analysis'
\* carries its JSON type
IsList(v) == v.type = "list"

\* The validation of JDAnalysisService.analyze: the provider's answer holds
\* a 'jd_analysis' list.
JdValid(out) ==
    /\ out.kind = "content"
    /\ out.valid_json
    /\ "jd_analysis" \in DOMAIN out.json
    /\ IsList(out.json.jd_analysis)

\* JDAnalysisService._format_resume_sections raises a KeyError on an
\* education entry without institution, degree or duration and on a project
\* without project_name.  (The list columns of an Application that
\* parse-resume has finished are never NULL.)
FormatRaises(resume_data) ==
    \/ \E k \in 1..Len(resume_data.education) :
          ~({"institution", "degree", "duration"} \subseteq DOMAIN resume_data.education[k])
    \/ \E k \in 1..Len(resume_data.personal_projects) :
          "project_name" \notin DOMAIN resume_data.personal_projects[k]

StartAnalyzeJd(c, header, resume_id) ==
    StartAnalysis(c, "analyze-jd", header, resume_id, "aj_get")

\* ResumeService.get_resume: its 404 for a missing row is caught by its own
\* except clause and leaves as a 500, which analyze_jd's except clause catches.
AjGetResume(c) ==
    LET a == ana[c]
    IN  /\ a.pc = "aj_get"
        /\ IF a.resume_id \notin DOMAIN resumes
           THEN ana' = [ana EXCEPT ![c] =
                    [a EXCEPT !.error = "404: Resume not found", !.pc = "aj_fail"]]
           ELSE \E experiences \in GetProfessionalExperience(a.resume_id) :
                  ana' = [ana EXCEPT ![c] =
                    [a EXCEPT !.resume_data = ResumeResponse(a.resume_id,
                                                  resumes[a.resume_id], experiences),
                              !.pc = "aj_progress"]]
        /\ UNCHANGED <<tables, ingestVars, started, credits>>
        /\ checked' = EmptyDict

\* update_resume_status(resume_id, 'analysis', 'in_progress')
AjSetInProgress(c) ==
    LET a == ana[c]
    IN  /\ a.pc = "aj_progress"
        /\ resumes' = UpdateById(resumes, a.resume_id, [analysis_status |-> "in_progress"])
        /\ ana' = [ana EXCEPT ![c] = [a EXCEPT !.pc = "aj_analyze"]]
        /\ UNCHANGED <<ai_requests_log, ingestVars, started, credits>>
        /\ checked' = EmptyDict

\* JDAnalysisService.analyze up to the provider's answer: a formatting error
\* goes to the outer except clause (which logs the failure); otherwise the
\* provider is called, and every answer but a valid one returns [] at once.
AjAnalyze(c) ==
    LET a == ana[c]
    IN  /\ a.pc = "aj_analyze"
        /\ IF FormatRaises(a.resume_data)
           THEN ana' = [ana EXCEPT ![c] = [a EXCEPT !.pc = "aj_log_failed"]]
           ELSE \E out \in JdProviderOutputs :
                  ana' = [ana EXCEPT ![c] =
                    IF JdValid(out)
                    THEN [a EXCEPT !.provider_called = TRUE,
                                   !.analysis = out.json.jd_analysis.value,
                                   !.pc = "aj_log_success"]
                    ELSE [a EXCEPT !.provider_called = TRUE, !.analysis = <<>>,
                                   !.pc = "aj_store"]]
        /\ UNCHANGED <<tables, ingestVars, started, credits>>
        /\ checked' = EmptyDict

\* log_ai_request('jd_analysis', 'success'), then return analysis['jd_analysis']
AjLogSuccess(c) ==
    LET a == ana[c]
    IN  /\ a.pc = "aj_log_success"
        /\ ai_requests_log' = LogAiRequest(ai_requests_log, a.user_id, "jd_analysis",
                                           "success", FALSE)
        /\ ana' = [ana EXCEPT ![c] = [a EXCEPT !.logged = Logged(a, "success"),
                                               !.validated = TRUE, !.pc = "aj_store"]]
        /\ UNCHANGED <<resumes, ingestVars, started, credits>>
        /\ checked' = EmptyDict

\* The insert of the success log raises: the inner except clause returns [].
AjLogSuccessFails(c) ==
    LET a == ana[c]
    IN  /\ a.pc = "aj_log_success"
        /\ a.user_id # None
        /\ ana' = [ana EXCEPT ![c] = [a EXCEPT !.analysis = <<>>, !.pc = "aj_store"]]
        /\ UNCHANGED <<tables, ingestVars, started, credits>>
        /\ checked' = EmptyDict

\* log_ai_request('jd_analysis', 'failed') of the outer except clause, then
\* return []
AjLogFailed(c) ==
    LET a == ana[c]
    IN  /\ a.pc = "aj_log_failed"
        /\ ai_requests_log' = LogAiRequest(ai_requests_log, a.user_id, "jd_analysis",
                                           "failed", FALSE)
        /\ ana' = [ana EXCEPT ![c] = [a EXCEPT !.logged = Logged(a, "failed"),
                                               !.analysis = <<>>, !.pc = "aj_store"]]
        /\ UNCHANGED <<resumes, ingestVars, started, credits>>
        /\ checked' = EmptyDict

\* update({'analysis_status': 'completed', 'jd_analysis': analysis}), return
AjStore(c) ==
    LET a == ana[c]
    IN  /\ a.pc = "aj_store"
        /\ resumes' = UpdateById(resumes, a.resume_id,
                          [analysis_status |-> "completed", jd_analysis |-> a.analysis])
        /\ ana' = [ana EXCEPT ![c] =
              Answer(a, 200, [status |-> "success", resume_id |-> a.resume_id,
                              analysis |-> a.analysis])]
        /\ UNCHANGED <<ai_requests_log, ingestVars, started, credits>>
        /\ checked' = EmptyDict

\* A call to the persistence backend raises inside analyze_jd's try block
\* (for the failure log: inside the except clause of analyze).
AjDbFails(c) ==
    LET a == ana[c]
    IN  /\ a.pc \in {"aj_get", "aj_progress", "aj_store"}
           \/ (a.pc = "aj_log_failed" /\ a.user_id # None)
        /\ ana' = [ana EXCEPT ![c] = [a EXCEPT !.error = "persistence error",
                                               !.pc = "aj_fail"]]
        /\ UNCHANGED <<tables, ingestVars, started, credits>>
        /\ checked' = EmptyDict

\* The metadata update_resume_status merges into: select('metadata') has no
\* filter, so data[0] is the metadata of whichever row comes first; a
\* failing select leaves the new metadata alone.
ExistingMetadata ==
    {EmptyDict} \cup { DictGet(resumes[id], "metadata", EmptyDict) : id \in DOMAIN resumes }

\* The except clause of analyze_jd:
\* update_resume_status(resume_id, 'analysis', 'failed', {'error': str(e)}),
\* then 500; the 500 is also the answer when this update raises.
AjMarkFailed(c) ==
    LET a == ana[c]
    IN  /\ a.pc = "aj_fail"
        /\ \/ \E existing_metadata \in ExistingMetadata :
                 resumes' = UpdateById(resumes, a.resume_id,
                     [analysis_status |-> "failed",
                      metadata |-> DictMerge(existing_metadata, [error |-> a.error])])
           \/ UNCHANGED resumes
        /\ ana' = [ana EXCEPT ![c] = Answer(a, 500, [detail |-> a.error])]
        /\ UNCHANGED <<ai_requests_log, ingestVars, started, credits>>
        /\ checked' = EmptyDict

----------------------------------------------------------------------------
(* GET /check-analysis/{resume_id} *)

\* check_analysis: the status fields are read from the response of
\* ResumeService.get_resume.
CheckAnalysis(c, header, resume_id) ==
    LET auth == GetUserId(header)
    IN  /\ IF auth.status_code = 401
           THEN checked' = [status_code |-> 401, detail |-> auth.detail]
           ELSE IF resume_id \notin DOMAIN resumes
           THEN checked' = [status_code |-> 500, detail |-> "404: Resume not found"]
           ELSE \E experiences \in GetProfessionalExperience(resume_id) :
                  LET resume_data == ResumeResponse(resume_id, resumes[resume_id],
                                                    experiences)
                  IN  checked' = [status_code |-> 200, resume_id |-> resume_id,
                                  status |-> "success",
                                  analysis_status |-> DictGet(resume_data, "analysis_status", None),
                                  jd_analysis |-> DictGet(resume_data, "jd_analysis", None)]
        /\ UNCHANGED <<tables, ingestVars, started, ana, credits>>

----------------------------------------------------------------------------
(* POST /resume/analyze-executive-summary *)

\* The columns the ownership query of analyze_executive_summary selects.
SummaryColumns == {"id", "job_description", "executive_summary", "education"}

\* select(columns): the row restricted to the selected columns
Project(row, columns) == [k \in DOMAIN row \cap columns |-> row[k]]

EsProviderOutputs ==
    { [kind |-> "raises"],
      [kind |-> "content", valid_json |-> FALSE, json |-> EmptyDict],
      [kind |-> "content", valid_json |-> TRUE, json |-> [note |-> "no summary"]],
      [kind |-> "content", valid_json |-> TRUE,
       json |-> [enhanced_version |-> [content |-> "Sharper engineer"]]] }

\* data.get('resumeId'); a missing or zero id is answered 400
StartAnalyzeSummary(c, header, resume_id) ==
    LET auth == GetUserId(header)
        a == [IdleAnalysis EXCEPT !.endpoint = "analyze-executive-summary",
                                  !.header = header]
    IN  /\ ana[c].pc \in {"idle", "done"}
        /\ started < MaxRequests
        /\ started' = started + 1
        /\ ana' = [ana EXCEPT ![c] =
              IF auth.status_code = 401
              THEN Answer(a, 401, [detail |-> auth.detail])
              ELSE IF resume_id = 0
              THEN Answer([a EXCEPT !.user_id = auth.user_id], 400,
                          [detail |-> "Resume ID is required"])
              ELSE [a EXCEPT !.user_id = auth.user_id, !.resume_id = resume_id,
                             !.credits_before = credits[c], !.pc = "es_select"]]
        /\ UNCHANGED <<tables, ingestVars, credits>>
        /\ checked' = EmptyDict

\* The ownership query and check.  The query embeds education(...) as a
\* related table, which the backend answers with an error or with the
\* selected columns; single() on no row raises.  user_id is not among the
\* selected columns.  Every HTTPException raised here is caught by the
\* inner except clause and leaves as a 500.
EsSelect(c) ==
    LET a == ana[c]
    IN  /\ a.pc = "es_select"
        /\ \/ ana' = [ana EXCEPT ![c] = Answer(a, 500, [detail |-> "persistence error"])]
           \/ /\ a.resume_id \in DOMAIN resumes
              /\ LET data == Project(resumes[a.resume_id], SummaryColumns)
                 IN  ana' = [ana EXCEPT ![c] =
                        IF DictGet(data, "user_id", None) # a.user_id
                        THEN Answer(a, 500,
                                [detail |-> "403: Not authorized to access this resume"])
                        ELSE [a EXCEPT !.resume_data = data, !.pc = "es_credits"]]
        /\ UNCHANGED <<tables, ingestVars, started, credits>>
        /\ checked' = EmptyDict

\* BaseService.check_credits of ExecutiveSummaryService (requires_credits is
\* True): no database call without a user_id; 402 leaves as a 500.
EsCheckCredits(c) ==
    LET a == ana[c]
        rpc == CheckAndUpdateAiCredits(credits[c])
    IN  /\ a.pc = "es_credits"
        /\ IF a.user_id = None
           THEN /\ ana' = [ana EXCEPT ![c] = [a EXCEPT !.pc = "es_call"]]
                /\ UNCHANGED credits
           ELSE /\ credits' = [credits EXCEPT ![c] = rpc.credits]
                /\ ana' = [ana EXCEPT ![c] =
                      IF rpc.data
                      THEN [a EXCEPT !.credit_check = "granted", !.pc = "es_call"]
                      ELSE Answer([a EXCEPT !.credit_check = "refused"], 500,
                                  [detail |-> "402: Insufficient credits"])]
        /\ UNCHANGED <<tables, ingestVars, started>>
        /\ checked' = EmptyDict

\* The provider call of analyze_and_improve and json.loads of its answer.
EsCallProvider(c) ==
    LET a == ana[c]
    IN  /\ a.pc = "es_call"
        /\ \E out \in EsProviderOutputs :
              ana' = [ana EXCEPT ![c] =
                IF out.kind = "content" /\ out.valid_json
                THEN [a EXCEPT !.provider_called = TRUE, !.analysis = out.json,
                               !.pc = "es_log_success"]
                ELSE [a EXCEPT !.provider_called = TRUE, !.error = "API Call Error",
                               !.pc = "es_log_failed"]]
        /\ UNCHANGED <<tables, ingestVars, started, credits>>
        /\ checked' = EmptyDict

\* log_ai_request('executive_summary_analysis', 'success')
EsLogSuccess(c) ==
    LET a == ana[c]
    IN  /\ a.pc = "es_log_success"
        /\ ai_requests_log' = LogAiRequest(ai_requests_log, a.user_id,
                                  "executive_summary_analysis", "success", TRUE)
        /\ ana' = [ana EXCEPT ![c] =
              IF "enhanced_version" \in DOMAIN a.analysis
              THEN [a EXCEPT !.logged = Logged(a, "success"), !.pc = "es_store"]
              ELSE [a EXCEPT !.logged = Logged(a, "success"),
                             !.error = "KeyError: enhanced_version",
                             !.pc = "es_log_failed"]]
        /\ UNCHANGED <<resumes, ingestVars, started, credits>>
        /\ checked' = EmptyDict

\* The service's update of executive_summary and summary_analysis, and return
EsStore(c) ==
    LET a == ana[c]
    IN  /\ a.pc = "es_store"
        /\ resumes' = UpdateByIdAndUser(resumes, a.resume_id, a.user_id,
                          [executive_summary |-> a.analysis.enhanced_version.content,
                           summary_analysis |-> a.analysis])
        /\ ana' = [ana EXCEPT ![c] = [a EXCEPT !.validated = TRUE, !.pc = "es_route_store"]]
        /\ UNCHANGED <<ai_requests_log, ingestVars, started, credits>>
        /\ checked' = EmptyDict

\* The route's update of summary_analysis and ai_improved_sections, and return
EsRouteStore(c) ==
    LET a == ana[c]
    IN  /\ a.pc = "es_route_store"
        /\ resumes' = UpdateByIdAndUser(resumes, a.resume_id, a.user_id,
                          [summary_analysis |-> a.analysis,
                           ai_improved_sections |-> [executive_summary |-> TRUE]])
        /\ ana' = [ana EXCEPT ![c] = Answer(a, 200, [analysis |-> a.analysis])]
        /\ UNCHANGED <<ai_requests_log, ingestVars, started, credits>>
        /\ checked' = EmptyDict

\* The except clause of the provider block: log_ai_request(..., 'failed'),
\* then the error leaves as a 500.
EsLogFailed(c) ==
    LET a == ana[c]
    IN  /\ a.pc = "es_log_failed"
        /\ ai_requests_log' = LogAiRequest(ai_requests_log, a.user_id,
                                  "executive_summary_analysis", "failed", TRUE)
        /\ ana' = [ana EXCEPT ![c] =
              Answer([a EXCEPT !.logged = Logged(a, "failed")], 500, [detail |-> a.error])]
        /\ UNCHANGED <<resumes, ingestVars, started, credits>>
        /\ checked' = EmptyDict

\* A write to the persistence backend raises after the provider call.
EsDbFails(c) ==
    LET a == ana[c]
    IN  /\ \/ /\ a.pc = "es_store" \/ (a.pc = "es_log_success" /\ a.user_id # None)
              /\ ana' = [ana EXCEPT ![c] = [a EXCEPT !.error = "persistence error",
                                                     !.pc = "es_log_failed"]]
           \/ /\ a.pc = "es_route_store" \/ (a.pc = "es_log_failed" /\ a.user_id # None)
              /\ ana' = [ana EXCEPT ![c] = Answer(a, 500, [detail |-> "persistence error"])]
        /\ UNCHANGED <<tables, ingestVars, started, credits>>
        /\ checked' = EmptyDict

----------------------------------------------------------------------------
(* Specification *)

\* The resume ids a client asks for: the existing ones and one that is not.
ResumeIds == DOMAIN resumes \cup {NextId(resumes)}

Next ==
    \/ \E user_id \in Users, form \in Forms, up \in Uploads :
          StartParseResume(user_id, Some(up), NoneOpt, form)
    \/ \E user_id \in Users, form \in Forms, id \in ParsedResumeIds :
          StartParseResume(user_id, NoneOpt, id, form)
    \/ \E r \in Reqs : LookupById(r)
    \/ \E r \in Reqs : LookupByHash(r)
    \/ \E r \in Reqs : CallParser(r)
    \/ \E r \in Reqs : LogParse(r)
    \/ \E r \in Reqs : LogParseFails(r)
    \/ \E r \in Reqs : StoreParsed(r)
    \/ \E r \in Reqs : CreateResume(r)
    \/ \E r \in Reqs : UpdateSections(r)
    \/ \E r \in Reqs : InsertExperience(r)
    \/ \E r \in Reqs : InsertPoints(r)
    \/ \E r \in Reqs : DbFails(r)

InFlight == { r \in Reqs : req[r].pc \notin {"idle", "done"} }

\* The ingestion requests one at a time, together with the read path.
NextWithReads ==
    \/ Next /\ Cardinality(InFlight') <= 1
    \/ \E user_id \in Users, resume_id \in ResumeIds : GetResume(user_id, resume_id)

Spec == Init /\ [][Next]_vars

\* An Application that parse-resume has built for u1, for the analysis
\* endpoints to work on: the form and the parser's document it came from.
SeedForm == [companyApplied |-> "Acme", roleApplied |-> "Engineer",
             jobDescription |-> "Build things"]

SecEducationFull ==
    [type |-> "education",
     entries |-> <<[institution |-> "MIT", degree |-> "BSc", duration |-> "4y"]>>]

\* complete education entries; and an education entry without degree, which
\* the JD analysis prompt cannot be formatted from
SeedDocs ==
    { Doc(<<SecContact, SecSummary, SecExperience, SecEducationFull, SecSkillsA>>),
      Doc(<<SecSummary, SecEducation>>) }

\* The rows InsertExperience writes for the entries, in order.
SeedExperiences(entries) ==
    InsertAll(<<>>, [k \in 1..Len(entries) |-> ExpData(1, entries[k])])

\* The rows InsertPoints writes for entries k.. (the k-th entry has id k).
RECURSIVE SeedPoints(_, _, _)
SeedPoints(entries, k, table) ==
    IF k > Len(entries) THEN table
    ELSE SeedPoints(entries, k + 1,
            IF HasPoints(entries[k])
            THEN InsertAll(table, PointsData(k, entries[k].points))
            ELSE table)

\* The state after u1's upload of B1 as cv.pdf was ingested from `doc`.
InitAnalysis ==
    \E doc \in SeedDocs :
        /\ parsed_resumes = Insert(<<>>, [user_id |-> "u1", file_hash |-> Md5("B1"),
                                          parsed_data |-> doc,
                                          original_filename |-> "cv.pdf"])
        /\ resumes = (1 :> DictMerge(Insert(<<>>, InitialResumeData("u1", SeedForm))[1],
                                     UpdateData(SectionsOf(doc))))
        /\ professional_experiences = SeedExperiences(ProfExp(SectionsOf(doc)))
        /\ experience_points = SeedPoints(ProfExp(SectionsOf(doc)), 1, <<>>)
        /\ ai_requests_log = Insert(<<>>, [user_id |-> "u1", service_name |-> "resume_parsing",
                                           status |-> "success", credits_used |-> FALSE])
        /\ req = [r \in Reqs |-> IdleReq]
        /\ providerCalls = [h \in Hashes |-> IF h = Md5("B1") THEN 1 ELSE 0]
        /\ started = 0
        /\ fetched = EmptyDict
        /\ ana = [c \in Users |-> IdleAnalysis]
        /\ credits = [u \in Users |-> InitialCredits]
        /\ checked = EmptyDict
        /\ InitAccounts

NextAnalysis ==
    \/ \E c \in Users, resume_id \in ResumeIds :
          \E header \in HeadersOf(c) : StartAnalyzeJd(c, header, resume_id)
    \/ \E c \in Users : AjGetResume(c)
    \/ \E c \in Users : AjSetInProgress(c)
    \/ \E c \in Users : AjAnalyze(c)
    \/ \E c \in Users : AjLogSuccess(c)
    \/ \E c \in Users : AjLogSuccessFails(c)
    \/ \E c \in Users : AjLogFailed(c)
    \/ \E c \in Users : AjStore(c)
    \/ \E c \in Users : AjDbFails(c)
    \/ \E c \in Users : AjMarkFailed(c)
    \/ \E c \in Users, resume_id \in {0} \cup ResumeIds :
          \E header \in HeadersOf(c) : StartAnalyzeSummary(c, header, resume_id)
    \/ \E c \in Users : EsSelect(c)
    \/ \E c \in Users : EsCheckCredits(c)
    \/ \E c \in Users : EsCallProvider(c)
    \/ \E c \in Users : EsLogSuccess(c)
    \/ \E c \in Users : EsStore(c)
    \/ \E c \in Users : EsRouteStore(c)
    \/ \E c \in Users : EsLogFailed(c)
    \/ \E c \in Users : EsDbFails(c)

\* The headers a polling client sends: its own token, or a token that
\* cannot be decoded.
PollHeaders(c) == { Some(<<"Bearer", Token(c)>>), Some(<<"Bearer", "invalid_token">>) }

\* The analysis endpoints together with a polling client.
NextPolling ==
    \/ NextAnalysis
    \/ \E c \in Users, resume_id \in ResumeIds :
          \E header \in PollHeaders(c) : CheckAnalysis(c, header, resume_id)

SpecAnalysis == InitAnalysis /\ [][NextAnalysis]_vars

SpecPolling == InitAnalysis /\ [][NextPolling]_vars

SpecWithReads == Init /\ [][NextWithReads]_vars

----------------------------------------------------------------------------
(* Properties of the parse cache *)

Done(r) == req[r].pc = "done"
Succeeded(r) == Done(r) /\ req[r].response.status_code = 200
Failed(r) == Done(r) /\ req[r].response.status_code # 200

\* The ids of the parsed_resumes rows stored for a content hash.
IdsWithHash(h) == { id \in DOMAIN parsed_resumes : parsed_resumes[id].file_hash = h }

\* The parsed_data a cache lookup by hash h can yield (data[0] of the rows
\* an unordered select returns).
LookupResults(h) == { data[1].parsed_data : data \in Orders(RowsWithHash(h)) }

\* C1: after any interleaving of parse-resume requests, parsed_resumes holds
\* at most one row per file_hash.
C1_OneRowPerHash == \A h \in Hashes : Cardinality(IdsWithHash(h)) <= 1

\* C2: for every content hash, the parser provider is invoked at most once
\* in total for uploads with that hash, whatever the requests and failures.
C2_ProviderAtMostOncePerHash == \A h \in Hashes : providerCalls[h] <= 1

\* C3: once a row is stored for a content hash, no step changes or removes
\* it, and a lookup by that hash keeps returning the same parsed_data.
C3_StoredParseIsForever ==
    [][ /\ \A id \in DOMAIN parsed_resumes :
              id \in DOMAIN parsed_resumes' /\ parsed_resumes'[id] = parsed_resumes[id]
        /\ \A h \in Hashes :
              IdsWithHash(h) # {} => LookupResults(h)' = LookupResults(h) ]_vars

\* C4: a successful parse-resume that uploads a file whose hash had no
\* stored ParsedResume (provider invoked, row stored) returns is_reused = false.
C4_FreshUploadNotReused ==
    \A r \in Reqs :
        (Succeeded(r) /\ req[r].path = "miss") => req[r].response.is_reused = FALSE

\* C5: a successful parse-resume that hits the cache by hash or names an
\* existing parsed_resume_id creates a new Application row under an id no
\* earlier Application has, invokes no provider call, adds no parsed_resumes
\* row, and returns is_reused = true.
C5_ReuseCreatesOnlyAnApplication ==
    /\ [] (\A r \in Reqs :
              (Succeeded(r) /\ req[r].path \in {"hit", "byid"}) =>
                  /\ req[r].response.is_reused = TRUE
                  /\ req[r].response.resume_id \in DOMAIN resumes)
    /\ [][ \A r \in Reqs :
              (req[r].path \in {"hit", "byid"} /\ ~Done(r) /\ req'[r] # req[r]) =>
                  /\ providerCalls' = providerCalls
                  /\ parsed_resumes' = parsed_resumes
                  /\ (req[r].pc = "create" /\ req'[r].pc = "update") =>
                        /\ req'[r].resume_id \notin DOMAIN resumes
                        /\ DOMAIN resumes' = DOMAIN resumes \cup {req'[r].resume_id} ]_vars

\* A request that hit the cache by hash has returned success.
C5_Witness == \E r \in Reqs : Succeeded(r) /\ req[r].path = "hit"

----------------------------------------------------------------------------
(* Properties of the application record builder *)

\* C6: every Application row parse-resume creates is created with status
\* 'Writing CV', parsing_status 'completed', analysis_status 'pending', and
\* with the caller's subject id and the submitted company, role and job
\* description.
C6_ApplicationHeader ==
    \A r \in Reqs :
        req[r].pc = "update" =>
            /\ req[r].resume_id \in DOMAIN resumes
            /\ resumes[req[r].resume_id] =
                  [id |-> req[r].resume_id,
                   user_id |-> r,
                   company_applied |-> req[r].form.companyApplied,
                   role_applied |-> req[r].form.roleApplied,
                   job_description |-> req[r].form.jobDescription,
                   status |-> "Writing CV",
                   parsing_status |-> "completed",
                   analysis_status |-> "pending"]

\* Both clients have just created their Application, from different forms.
C6_Witness ==
    /\ \A r \in Reqs : req[r].pc = "update"
    /\ \E r, o \in Reqs : req[r].form # req[o].form

\* The section update of request r has been applied to its Application.
SectionsWritten(r) ==
    \/ req[r].pc \in {"exp", "points"}
    \/ Succeeded(r)
    \/ Failed(r) /\ req[r].failed_at \in {"exp", "points"}

\* The columns the record builder fills, with the key it reads from the
\* section and the empty container it defaults to.
SectionKey(field) ==
    IF field \in {"contact_information", "executive_summary"} THEN "content" ELSE "entries"

\* The first section of the given type, as a set of at most one section.
FirstSection(sections, type) ==
    { sections[i] : i \in { k \in 1..Len(sections) :
                              /\ "type" \in DOMAIN sections[k]
                              /\ sections[k].type = type
                              /\ \A j \in 1..(k - 1) :
                                    "type" \in DOMAIN sections[j] => sections[j].type # type } }

\* The column holds what the first section of that type holds under its key,
\* and the empty container when there is no such section or key.
ColumnFromSection(row, field, sections, type, empty) ==
    /\ field \in DOMAIN row
    /\ \A s \in FirstSection(sections, type) :
          IF SectionKey(field) \in DOMAIN s THEN row[field] = s[SectionKey(field)]
          ELSE row[field] = empty
    /\ FirstSection(sections, type) = {} => row[field] = empty

\* The columns whose section type is the column's name.
ListColumns == {"education", "skills", "certificates", "miscellaneous", "personal_projects"}

BucketsByName(r, summaryType) ==
    LET row == resumes[req[r].resume_id]
        sections == SectionsOf(req[r].parsed_data)
    IN  /\ ColumnFromSection(row, "contact_information", sections, "contact_information", "{}")
        /\ \A f \in ListColumns : ColumnFromSection(row, f, sections, f, <<>>)
        /\ ColumnFromSection(row, "executive_summary", sections, summaryType, "")

\* C7 as claimed: each of the seven columns, executive_summary included, is
\* set from the first section whose type equals the column's name, and to
\* an empty container when there is none.
C7_BucketsByFieldName ==
    \A r \in Reqs : SectionsWritten(r) => BucketsByName(r, "executive_summary")

\* C7 as amended: the same, except that executive_summary is set from the
\* first section whose type is 'executive summary' (with a space).
C7_BucketsAmended ==
    \A r \in Reqs : SectionsWritten(r) => BucketsByName(r, "executive summary")

\* A record has been built from a document that has two skills sections, a
\* summary section and no certificates section.
C7_Witness ==
    \E r \in Reqs :
        /\ SectionsWritten(r)
        /\ LET sections == SectionsOf(req[r].parsed_data)
           IN  /\ Cardinality({ i \in 1..Len(sections) : sections[i].type = "skills" }) = 2
               /\ FirstSection(sections, "executive summary") # {}
               /\ FirstSection(sections, "certificates") = {}

\* The entries of the professional_experience section of the structured
\* resume request r builds from (none when the section or its list is absent).
ClaimedEntries(r) ==
    LET fs == FirstSection(SectionsOf(req[r].parsed_data), "professional_experience")
    IN  IF fs = {} THEN <<>> ELSE DictGet(TheValue(fs), "entries", <<>>)

\* The bullet points of an entry (none when the key is absent).
EntryPoints(exp) == IF "points" \in DOMAIN exp THEN exp.points ELSE <<>>

EntryField(exp, k) == IF k \in DOMAIN exp THEN exp[k] ELSE ""

ExpIds(resume_id) ==
    { id \in DOMAIN professional_experiences :
        professional_experiences[id].resume_id = resume_id }

PointIds(exp_id) ==
    { id \in DOMAIN experience_points : experience_points[id].experience_id = exp_id }

\* The row with this id is the ProfessionalExperience row of entry exp.
EntryStoredAs(exp, id, resume_id) ==
    LET row == professional_experiences[id]
    IN  /\ row.resume_id = resume_id
        /\ row.organization = EntryField(exp, "organization")
        /\ row.role = EntryField(exp, "role")
        /\ row.duration = EntryField(exp, "duration")
        /\ row.location = EntryField(exp, "location")
        /\ row.organization_description = EntryField(exp, "organization_description")

\* The ExperiencePoint rows referencing exp_id are exactly one per bullet.
PointsStoredFor(exp_id, points) ==
    /\ Cardinality(PointIds(exp_id)) = Len(points)
    /\ \A id \in PointIds(exp_id) :
          Cardinality({ j \in PointIds(exp_id) :
                          experience_points[j].text = experience_points[id].text })
            = Cardinality({ k \in 1..Len(points) : points[k] = experience_points[id].text })

\* C8: after a parse-resume that completes without error, the Application
\* has exactly one ProfessionalExperience row per entry and, for each entry,
\* exactly one ExperiencePoint row per bullet, referencing that entry's row;
\* an empty or absent list yields no ProfessionalExperience row.
C8_ExperienceFanOut ==
    \A r \in Reqs :
        Succeeded(r) =>
            \E o \in Orders(ExpIds(req[r].resume_id)) :
                /\ Len(o) = Len(ClaimedEntries(r))
                /\ \A k \in 1..Len(o) :
                      /\ EntryStoredAs(ClaimedEntries(r)[k], o[k], req[r].resume_id)
                      /\ PointsStoredFor(o[k], EntryPoints(ClaimedEntries(r)[k]))

\* Both clients have built an Application, one from two entries of which one
\* has two bullets, the other from a document without experience entries.
C8_Witness ==
    \E r, o \in Reqs :
        /\ Succeeded(r) /\ Succeeded(o)
        /\ Len(ClaimedEntries(r)) = 2
        /\ \E k \in 1..2 : Len(EntryPoints(ClaimedEntries(r)[k])) = 2
        /\ Len(ClaimedEntries(o)) = 0

\* C10: if an insert fails while parse-resume writes its k-th experience
\* entry or that entry's points, the Application row with its section update
\* and the rows of entries 1..k-1 stay persisted, no row of a later entry is
\* written, and the request ends with an error response.
C10_PartialWriteOnFailure ==
    \A r \in Reqs :
        (Done(r) /\ req[r].failed_at \in {"exp", "points"}) =>
            LET k == req[r].i
                entries == ClaimedEntries(r)
            IN  /\ req[r].response.status_code = 500
                /\ req[r].resume_id \in DOMAIN resumes
                /\ resumes[req[r].resume_id].user_id = r
                /\ BucketsByName(r, "executive summary")
                /\ \E o \in Orders(ExpIds(req[r].resume_id)) :
                      /\ Len(o) \in {k - 1, k}
                      /\ req[r].failed_at = "exp" => Len(o) = k - 1
                      /\ \A j \in 1..Len(o) : EntryStoredAs(entries[j], o[j], req[r].resume_id)
                      /\ \A j \in 1..(k - 1) : PointsStoredFor(o[j], EntryPoints(entries[j]))

\* The insert of the second entry's row has failed after the first entry and
\* its two bullets were written.
C10_Witness ==
    \E r \in Reqs :
        /\ Done(r) /\ req[r].failed_at = "exp" /\ req[r].i = 2
        /\ Len(EntryPoints(ClaimedEntries(r)[1])) = 2

----------------------------------------------------------------------------
(* Properties of the read path *)

\* The texts of the points of a fetched experience, in the order returned.
Texts(points) == [k \in 1..Len(points) |-> points[k].text]

\* C9: for an Application built by parse-resume, an immediately following
\* GET /get-resume by the owner returns the same experience entries and,
\* inside each entry, the same point texts in the same order.
C9_RoundTripKeepsPointOrder ==
    ("status_code" \in DOMAIN fetched /\ fetched.status_code = 200) =>
        \A r \in Reqs :
            (Succeeded(r) /\ req[r].resume_id = fetched.body.id) =>
                LET want == ClaimedEntries(r)
                    got == fetched.body.professional_experience
                IN  /\ Len(got) = Len(want)
                    /\ \E p \in Orders(1..Len(want)) :
                          \A k \in 1..Len(want) :
                              /\ got[p[k]].organization = EntryField(want[k], "organization")
                              /\ got[p[k]].role = EntryField(want[k], "role")
                              /\ Texts(got[p[k]].points) = EntryPoints(want[k])

----------------------------------------------------------------------------
(* Properties of the parser's failure paths *)

\* Request r uploaded a file whose extension the text extractor rejects.
Unsupported(r) ==
    /\ req[r].resume # NoneOpt
    /\ Suffix(TheValue(req[r].resume).filename) \notin SUPPORTED_EXTENSIONS

\* C11: every parse-resume that uploads a file with an unsupported extension
\* fails with the unsupported-format error, and no external call (here: the
\* cache lookup, whose answer the request holds) was made before the error.
C11_UnsupportedFailsBeforeAnyCall ==
    \A r \in Reqs :
        (Done(r) /\ req[r].path # "byid" /\ Unsupported(r)) =>
            /\ Failed(r)
            /\ req[r].response.detail = "Unsupported file type"
            /\ req[r].existing_parse = NoneOpt

\* The errors _process_parsing_response raises.
MalformedErrors == {"JSONDecodeError", "Invalid response format: missing 'content' key"}

----------------------------------------------------------------------------
(* Properties of authentication and authorization *)

ADone(c) == ana[c].pc = "done"

\* Analysis request c was let into its handler (it was not answered 401).
Entered(c) == ana[c].pc # "idle" /\ ana[c].endpoint # None /\
              ~(ADone(c) /\ ana[c].response.status_code = 401)

\* The tokens that decode to a set of claims.
DecodableTokens == {"jwt-u1", "jwt-u2", "jwt-nosub"}

\* The header is absent, does not start with 'Bearer ', or carries a token
\* that cannot be decoded.
HeaderRejected(header) ==
    \/ header = NoneOpt
    \/ /\ header # NoneOpt
       /\ \/ Len(TheValue(header)) < 2
          \/ TheValue(header)[1] # "Bearer"
          \/ TheValue(header)[2] \notin DecodableTokens

\* C13: a request to an endpoint behind get_user_id whose Authorization
\* header is absent, is not a 'Bearer ' header, or carries an undecodable
\* token is answered 401 at once; its handler writes nothing, takes no
\* credit and calls no provider.
C13_BadHeaderIs401 ==
    [][ \A c \in Users :
          (ana'[c] # ana[c] /\ HeaderRejected(ana'[c].header)) =>
              /\ ana'[c].pc = "done"
              /\ ana'[c].response.status_code = 401
              /\ ~ana'[c].provider_called
              /\ UNCHANGED <<tables, credits>> ]_vars

\* One client was answered 401 for a token that cannot be decoded on
\* analyze-jd, the other for an absent header on analyze-executive-summary.
C13_Witness ==
    \E c, d \in Users :
        /\ ADone(c) /\ ana[c].endpoint = "analyze-jd"
        /\ ana[c].header = Some(<<"Bearer", "invalid_token">>)
        /\ ana[c].response.status_code = 401
        /\ ADone(d) /\ ana[d].endpoint = "analyze-executive-summary"
        /\ ana[d].header = NoneOpt
        /\ ana[d].response.status_code = 401

\* C14: analyze-jd with a valid token for an id that no Application has is
\* answered 404.
C14_MissingApplicationIs404 ==
    \A c \in Users :
        (ADone(c) /\ Entered(c) /\ ana[c].endpoint = "analyze-jd"
           /\ ana[c].resume_id \notin DOMAIN resumes) =>
            ana[c].response.status_code = 404

\* Analysis request c is for an existing Application of another user.
Foreign(c) ==
    /\ ana[c].resume_id \in DOMAIN resumes
    /\ resumes[ana[c].resume_id].user_id # ana[c].user_id

\* C15: analyze-jd by a user other than the Application's owner is answered
\* 403 and calls no provider.
C15_ForeignAnalysisIs403 ==
    \A c \in Users :
        (ADone(c) /\ Entered(c) /\ ana[c].endpoint = "analyze-jd" /\ Foreign(c)) =>
            /\ ana[c].response.status_code = 403
            /\ ~ana[c].provider_called

\* C16: analyze-executive-summary lets the Application's owner through the
\* ownership check, and answers any other user 403 before any provider call.
C16_SummaryOwnershipCheck ==
    \A c \in Users :
        (ADone(c) /\ Entered(c) /\ ana[c].endpoint = "analyze-executive-summary"
           /\ ana[c].resume_id \in DOMAIN resumes) =>
            IF Foreign(c)
            THEN ana[c].response.status_code = 403 /\ ~ana[c].provider_called
            ELSE DictGet(ana[c].response, "detail", None)
                    # "403: Not authorized to access this resume"

----------------------------------------------------------------------------
(* Properties of the JD analysis *)

\* C17: each successful analyze-jd takes exactly one credit from its caller.
C17_JdAnalysisCostsOneCredit ==
    \A c \in Users :
        (ADone(c) /\ ana[c].endpoint = "analyze-jd" /\ ana[c].user_id = c
           /\ ana[c].response.status_code = 200) =>
            credits[c] = ana[c].credits_before - 1

\* C18: an orchestrator invocation by a user with a subject id that reached
\* the provider call has recorded exactly one request-log entry, with
\* status success exactly when a validated result was returned.
C18_OneLogEntryPerInvocation ==
    \A c \in Users :
        (ADone(c) /\ ana[c].provider_called /\ ana[c].user_id # None) =>
            /\ Len(ana[c].logged) = 1
            /\ (ana[c].logged[1] = "success") <=> ana[c].validated

\* The 'jd_analysis' lists the provider returns in a valid answer.
ValidJdPayloads == { out.json.jd_analysis.value : out \in { o \in JdProviderOutputs : JdValid(o) } }

\* C19: an Application whose analysis_status is 'completed' holds under
\* jd_analysis a list the provider returned in an answer that passed
\* validation.
C19_CompletedHasValidPayload ==
    \A id \in DOMAIN resumes :
        resumes[id].analysis_status = "completed" =>
            /\ "jd_analysis" \in DOMAIN resumes[id]
            /\ resumes[id].jd_analysis \in ValidJdPayloads

\* C20: the analysis_status a poll of check-analysis reports is the
\* analysis_status persisted on that Application.
C20_PollReportsPersistedStatus ==
    ("status_code" \in DOMAIN checked /\ checked.status_code = 200) =>
        checked.analysis_status = resumes[checked.resume_id].analysis_status

----------------------------------------------------------------------------
(* Properties of the reuse of a stored parse *)

\* C27: an Application built through parsed_resume_id is built from a
\* ParsedResume whose user_id is the caller's subject id.
C27_ReuseByIdOnlyOwnParse ==
    \A r \in Reqs :
        (Succeeded(r) /\ req[r].path = "byid") =>
            parsed_resumes[TheValue(req[r].parsed_resume_id)].user_id = req[r].user_id

----------------------------------------------------------------------------
(* Properties of the credit check and of the analysis lifecycle *)

\* The endpoints whose service requires credits.
CreditEndpoints ==
    {"analyze-executive-summary", "analyze-skills", "generate-cover-letter"}

\* C26: a request to a credit-requiring service that has called the provider
\* has had a credit check-and-update for its caller answered true before.
C26_ProviderOnlyAfterCreditCheck ==
    \A c \in Users :
        (ana[c].endpoint \in CreditEndpoints /\ ana[c].provider_called) =>
            ana[c].credit_check = "granted"

\* Another analyze-jd request for the Application of c's request is in flight.
OtherJdInFlight(c) ==
    \E d \in Users \ {c} :
        /\ ana[d].endpoint = "analyze-jd"
        /\ ana[d].pc \notin {"idle", "done"}
        /\ ana[d].resume_id = ana[c].resume_id

\* C30: once an analyze-jd request on an existing Application has been
\* answered and no other one for that Application is in flight, the
\* Application's analysis_status is 'completed' or 'failed'.
C30_TerminatedAnalysisIsSettled ==
    \A c \in Users :
        (ADone(c) /\ Entered(c) /\ ana[c].endpoint = "analyze-jd"
           /\ ana[c].resume_id \in DOMAIN resumes /\ ~OtherJdInFlight(c)) =>
            resumes[ana[c].resume_id].analysis_status \in {"completed", "failed"}

----------------------------------------------------------------------------
(* GET /parsed-resumes *)

\* created_at defaults to the time of the insert, and rows are inserted in
\* the order of their serial ids: the id stands for the creation time.
CreatedAt(row) == row.id

\* order('created_at', desc=True) of the rows with the given ids
NewestFirst(table, ids) ==
    CHOOSE s \in [1..Cardinality(ids) -> ids] :
        \A i, j \in 1..Cardinality(ids) :
            i < j => CreatedAt(table[s[i]]) > CreatedAt(table[s[j]])

\* The ids select('*').eq('user_id', user_id) matches; no row has a NULL
\* user_id equal to a caller without a subject.
ParsedResumesOf(user_id) ==
    { id \in DOMAIN parsed_resumes : parsed_resumes[id].user_id = user_id }

\* The ids select(...).eq('parsed_resume_id', id) matches in resumes; a row
\* whose parsed_resume_id is NULL matches no id.
ApplicationsFrom(parsed_resume_id) ==
    { id \in DOMAIN resumes : /\ "parsed_resume_id" \in DOMAIN resumes[id]
                              /\ resumes[id].parsed_resume_id = parsed_resume_id }

\* resume['last_used'] for the most recent application found
LastUsed(app) ==
    [company |-> app.company_applied, role |-> app.role_applied, date |-> CreatedAt(app)]

\* One entry of the answer: the row, with last_used when the query for its
\* most recent application found one; when that query raises the entry is
\* left without it.
ParsedResumeEntries(id) ==
    LET row == parsed_resumes[id]
        apps == ApplicationsFrom(id)
    IN  {row} \cup
        (IF apps = {} THEN {}
         ELSE {[last_used |-> LastUsed(resumes[NewestFirst(resumes, apps)[1]])] @@ row})

\* get_parsed_resumes: the caller's parsed resumes, newest first
GetParsedResumes(c, header) ==
    LET auth == GetUserId(header)
    IN  /\ IF auth.status_code = 401
           THEN fetched' = [status_code |-> 401, detail |-> auth.detail]
           ELSE LET ids == NewestFirst(parsed_resumes, ParsedResumesOf(auth.user_id))
                IN  \/ fetched' = [status_code |-> 500, detail |-> "persistence error"]
                    \/ \E body \in [1..Len(ids) -> UNION { ParsedResumeEntries(id) :
                                                               id \in DOMAIN parsed_resumes }] :
                          /\ \A k \in 1..Len(ids) : body[k] \in ParsedResumeEntries(ids[k])
                          /\ fetched' = [status_code |-> 200, user_id |-> auth.user_id,
                                         body |-> body]
        /\ UNCHANGED <<tables, req, providerCalls, started, analysisVars>>

\* The ingestion requests one at a time, together with the listing.
NextLibrary ==
    \/ Next /\ Cardinality(InFlight') <= 1
    \/ \E c \in Users : \E header \in PollHeaders(c) : GetParsedResumes(c, header)

SpecLibrary == Init /\ [][NextLibrary]_vars

----------------------------------------------------------------------------
(* Properties of the listing of parsed resumes *)

\* Request r has created its Application.
Created(r) == req[r].resume_id # 0

\* The ParsedResume the Application of request r originated from: the one
\* named by parsed_resume_id, the one the cache lookup hit, or the one the
\* request stored after a fresh parse.
OriginOf(r) ==
    LET q == req[r]
    IN  IF q.path = "byid" THEN TheValue(q.parsed_resume_id)
        ELSE IF q.path = "hit" THEN TheValue(q.existing_parse)[1].id
        ELSE CHOOSE id \in DOMAIN parsed_resumes :
                /\ parsed_resumes[id].user_id = q.user_id
                /\ parsed_resumes[id].file_hash = q.file_hash

\* The most recently created Application among those the requests at hand
\* created from ParsedResume p.
LatestFrom(p) ==
    LET ids == { req[r].resume_id : r \in { x \in Reqs : Created(x) /\ OriginOf(x) = p } }
    IN  CHOOSE id \in ids : \A other \in ids : id >= other

\* C21: once an Application has been created from ParsedResume P, the listing
\* answered to P's owner shows P with last_used naming the company, role and
\* creation time of the most recently created Application from P.
C21_ListingShowsLastUse ==
    \A r \in Reqs :
        (/\ "body" \in DOMAIN fetched /\ "user_id" \in DOMAIN fetched
         /\ Created(r)
         /\ parsed_resumes[OriginOf(r)].user_id = fetched.user_id) =>
            \E k \in 1..Len(fetched.body) :
                /\ fetched.body[k].id = OriginOf(r)
                /\ "last_used" \in DOMAIN fetched.body[k]
                /\ fetched.body[k].last_used = LastUsed(resumes[LatestFrom(OriginOf(r))])

----------------------------------------------------------------------------
(* RateLimitMiddleware *)

\* What the rest of the program keeps in its state.
programVars == <<tables, req, providerCalls, started, fetched, ana, credits, checked>>

\* A cleaning that forgets a request one time unit too early.
KeepRecentShorter(times, current_time) ==
    SelectSeq(times, LAMBDA req_time : current_time - req_time < RateLimitWindow - 1)

\* [req_time for req_time in request_counts[client_ip]
\*      if current_time - req_time < rate_limit_window]
KeepRecent(times, current_time) ==
    SelectSeq(times, LAMBDA req_time : current_time - req_time < RateLimitWindow)

\* time.time() moves on between requests.
Tick ==
    /\ now < MaxTime
    /\ now' = now + 1
    /\ UNCHANGED <<request_counts, dispatched, programVars, signupVars>>

\* dispatch: there is no await between the cleaning, the check and the
\* append, so they are one step.  A request over the limit is answered 429
\* and not recorded; any other is recorded and passed to the next handler.
Dispatch(client_ip) ==
    LET current_time == now
        recent == KeepRecent(request_counts[client_ip], current_time)
    IN  /\ Len(dispatched) < MaxDispatches
        /\ IF Len(recent) >= RateLimitRequests
           THEN /\ request_counts' = [request_counts EXCEPT ![client_ip] = recent]
                /\ dispatched' = Append(dispatched,
                        [client_ip |-> client_ip, time |-> current_time,
                         status_code |-> 429])
           ELSE /\ request_counts' = [request_counts EXCEPT ![client_ip] =
                                          Append(recent, current_time)]
                /\ dispatched' = Append(dispatched,
                        [client_ip |-> client_ip, time |-> current_time,
                         status_code |-> 200])
        /\ UNCHANGED <<now, programVars, signupVars>>

NextRateLimit ==
    \/ Tick
    \/ \E client_ip \in ClientIps : Dispatch(client_ip)

SpecRateLimit == Init /\ [][NextRateLimit]_vars

----------------------------------------------------------------------------
(* Properties of the rate limiter *)

\* The requests of an address admitted before the k-th answered request,
\* or among all of them, with admission times in the window (t - w, t].
AdmittedIn(client_ip, t, upto) ==
    { k \in 1..upto : /\ dispatched[k].client_ip = client_ip
                      /\ dispatched[k].status_code = 200
                      /\ dispatched[k].time > t - RateLimitWindow
                      /\ dispatched[k].time <= t }

\* C28: for every address and every time t at most rate_limit_requests
\* requests admitted from it have admission times in (t - rate_limit_window,
\* t]; the table records admitted requests only, and a request is rejected
\* only when the admitted requests of its window alone reach the limit.
C28_AtMostLimitPerWindow ==
    /\ \A client_ip \in ClientIps, t \in 0..MaxTime :
          Cardinality(AdmittedIn(client_ip, t, Len(dispatched))) <= RateLimitRequests
    /\ \A client_ip \in ClientIps, t \in 0..MaxTime :
          Len(SelectSeq(request_counts[client_ip], LAMBDA req_time : req_time = t))
             <= Cardinality({ k \in AdmittedIn(client_ip, t, Len(dispatched)) :
                                dispatched[k].time = t })
    /\ \A k \in 1..Len(dispatched) :
          dispatched[k].status_code = 429 =>
             Cardinality(AdmittedIn(dispatched[k].client_ip, dispatched[k].time, k - 1))
                >= RateLimitRequests

\* An address reached its limit, was rejected, and was admitted again once
\* its admitted requests had left the window.
C28_Witness ==
    \E i, j, k \in 1..Len(dispatched) :
        /\ i < j /\ j < k
        /\ dispatched[i].client_ip = dispatched[j].client_ip
        /\ dispatched[j].client_ip = dispatched[k].client_ip
        /\ dispatched[i].status_code = 200
        /\ dispatched[j].status_code = 429
        /\ dispatched[k].status_code = 200
        /\ dispatched[k].time > dispatched[j].time

----------------------------------------------------------------------------
(* POST /auth/signup *)

Emails == {"ann@x.io", "bob@x.io"}

\* data.get('email'), data.get('password'): present or missing
SignupBodies == [email : {NoneOpt} \cup { Some(e) : e \in Emails },
                 password : {NoneOpt, Some("pw")}]

SuAnswer(q, status_code, detail) ==
    [q EXCEPT !.pc = "done", !.response = [status_code |-> status_code, detail |-> detail]]

\* 1. Validate input
StartSignup(c, body) ==
    /\ su[c].pc \in {"idle", "done"}
    /\ su' = [su EXCEPT ![c] =
          IF body.email = NoneOpt \/ body.password = NoneOpt
          THEN SuAnswer([IdleSignup EXCEPT !.email = body.email], 400,
                        "Email and password are required")
          ELSE [IdleSignup EXCEPT !.email = body.email, !.pc = "su_check"]]
    /\ UNCHANGED <<auth_users, user_profiles, programVars, rateVars>>

\* 2. select('*').eq('email', email) on user_profiles: 409 for an email that
\* has a profile; a raising select leaves as a 500.
SuCheckProfile(c) ==
    LET q == su[c]
    IN  /\ q.pc = "su_check"
        /\ \/ su' = [su EXCEPT ![c] = SuAnswer(q, 500, "An unexpected error occurred")]
           \/ su' = [su EXCEPT ![c] =
                 IF TheValue(q.email) \in user_profiles
                 THEN SuAnswer(q, 409, "Email already registered")
                 ELSE [q EXCEPT !.pc = "su_auth"]]
        /\ UNCHANGED <<auth_users, user_profiles, programVars, rateVars>>

\* 3. supabase.auth.sign_up: the auth service raises, answers without a
\* user, or answers with the user of the email (created unless it exists).
SuSignUp(c) ==
    LET q == su[c]
    IN  /\ q.pc = "su_auth"
        /\ \/ /\ su' = [su EXCEPT ![c] =
                       SuAnswer(q, 400, "Registration failed. Please try again.")]
              /\ UNCHANGED auth_users
           \/ /\ auth_users' = auth_users \cup {TheValue(q.email)}
              /\ su' = [su EXCEPT ![c] = [q EXCEPT !.pc = "su_profile"]]
        /\ UNCHANGED <<user_profiles, programVars, rateVars>>

\* supabase_admin.from_('user_profiles').insert(...): the profile is created
\* and the request answered 201, or the insert raises.
SuInsertProfile(c) ==
    LET q == su[c]
    IN  /\ q.pc = "su_profile"
        /\ \/ /\ user_profiles' = user_profiles \cup {TheValue(q.email)}
              /\ su' = [su EXCEPT ![c] =
                    SuAnswer(q, 201, "Please check your email to verify your account")]
           \/ /\ UNCHANGED user_profiles
              /\ su' = [su EXCEPT ![c] = [q EXCEPT !.pc = "su_cleanup"]]
        /\ UNCHANGED <<auth_users, programVars, rateVars>>

\* supabase_admin.auth.admin.delete_user(auth_response.user.id): the auth
\* user is deleted, or the delete raises and is only logged; either way the
\* request is answered 400.
SuCleanup(c) ==
    LET q == su[c]
    IN  /\ q.pc = "su_cleanup"
        /\ \/ auth_users' = auth_users \ {TheValue(q.email)}
           \/ UNCHANGED auth_users
        /\ su' = [su EXCEPT ![c] =
              SuAnswer(q, 400, "Registration failed. Please try again.")]
        /\ UNCHANGED <<user_profiles, programVars, rateVars>>

NextSignup ==
    \/ \E c \in Users, body \in SignupBodies : StartSignup(c, body)
    \/ \E c \in Users : SuCheckProfile(c)
    \/ \E c \in Users : SuSignUp(c)
    \/ \E c \in Users : SuInsertProfile(c)
    \/ \E c \in Users : SuCleanup(c)

SpecSignup == Init /\ [][NextSignup]_vars

----------------------------------------------------------------------------
(* Properties of the signup *)

\* A signup request for the email is being served.
SignupInFlight(email) ==
    \E c \in Users : su[c].pc \notin {"idle", "done"} /\ su[c].email = Some(email)

\* C23: once the signups for an email have terminated, an auth user for the
\* email exists exactly when a user_profiles row for it exists.
C23_AuthUserIffProfile ==
    \A email \in Emails :
        ~SignupInFlight(email) => (email \in auth_users <=> email \in user_profiles)

----------------------------------------------------------------------------
(* PUT /update-application-status and PUT /update-application-date *)

Statuses == {"Writing CV", "Applied", "Interview"}

Dates == {"2024-01-01", "2024-02-02"}

\* A request to an endpoint that has no get_user_id dependency enters its
\* handler: the caller's identity is not looked at.
StartEdit(endpoint, resume_id, body) ==
    [IdleAnalysis EXCEPT !.endpoint = endpoint, !.resume_id = resume_id, !.body = body]

\* update_application_status: one update by id; the 404 for no matching row
\* is raised inside the try block and leaves as a 500, as a raising update
\* does.
UpdateApplicationStatus(c, resume_id, status) ==
    LET a == StartEdit("update-application-status", resume_id, [status |-> status])
    IN  /\ ana[c].pc \in {"idle", "done"}
        /\ started < MaxRequests
        /\ started' = started + 1
        /\ \/ /\ resumes' = UpdateById(resumes, resume_id, [status |-> status])
              /\ ana' = [ana EXCEPT ![c] =
                    IF resume_id \in DOMAIN resumes
                    THEN Answer(a, 200, [message |-> "Status updated successfully"])
                    ELSE Answer(a, 500, [detail |-> "404: Application not found"])]
           \/ /\ UNCHANGED resumes
              /\ ana' = [ana EXCEPT ![c] = Answer(a, 500, [detail |-> "persistence error"])]
        /\ UNCHANGED <<ai_requests_log, ingestVars, credits>>
        /\ checked' = EmptyDict

\* update_application_date, first call: select('status').eq('id', resume_id)
UdSelect(c, resume_id, date_applied) ==
    LET a == StartEdit("update-application-date", resume_id,
                       [date_applied |-> date_applied])
    IN  /\ ana[c].pc \in {"idle", "done"}
        /\ started < MaxRequests
        /\ started' = started + 1
        /\ \/ ana' = [ana EXCEPT ![c] =
                 IF resume_id \in DOMAIN resumes
                 THEN [a EXCEPT !.resume_data = [status |-> resumes[resume_id].status],
                                !.pc = "ud_update"]
                 ELSE Answer(a, 500, [detail |-> "404: Application not found"])]
           \/ ana' = [ana EXCEPT ![c] = Answer(a, 500, [detail |-> "persistence error"])]
        /\ UNCHANGED <<tables, ingestVars, credits>>
        /\ checked' = EmptyDict

\* new_status = 'Applied' if current_status == 'Writing CV' else current_status
NewStatus(current_status) ==
    IF current_status = "Writing CV" THEN "Applied" ELSE current_status

\* update_application_date, second call: the update of date_applied and
\* status by id
UdUpdate(c) ==
    LET a == ana[c]
    IN  /\ a.pc = "ud_update"
        /\ \/ /\ resumes' = UpdateById(resumes, a.resume_id,
                                [date_applied |-> a.body.date_applied,
                                 status |-> NewStatus(a.resume_data.status)])
              /\ ana' = [ana EXCEPT ![c] =
                    Answer(a, 200, [message |-> "Application date updated successfully"])]
           \/ /\ UNCHANGED resumes
              /\ ana' = [ana EXCEPT ![c] = Answer(a, 500, [detail |-> "persistence error"])]
        /\ UNCHANGED <<ai_requests_log, ingestVars, started, credits>>
        /\ checked' = EmptyDict

NextTracking ==
    \/ \E c \in Users, resume_id \in ResumeIds, status \in Statuses :
          UpdateApplicationStatus(c, resume_id, status)
    \/ \E c \in Users, resume_id \in ResumeIds, date_applied \in Dates :
          UdSelect(c, resume_id, date_applied)
    \/ \E c \in Users : UdUpdate(c)

SpecTracking == InitAnalysis /\ [][NextTracking]_vars

----------------------------------------------------------------------------
(* Properties of the application tracking *)

\* The step answers update-application-date request c with success.
DateUpdated(c) ==
    /\ ana[c].pc = "ud_update"
    /\ ana'[c].pc = "done"
    /\ ana'[c].response.status_code = 200
    /\ ana[c].resume_id \in DOMAIN resumes

\* C29: a successful update-application-date sets date_applied to the
\* submitted date, moves the status 'Writing CV' to 'Applied' and leaves
\* every other status as it is.
C29_DateUpdateKeepsOtherStatus ==
    [][ \A c \in Users :
          DateUpdated(c) =>
             LET id == ana[c].resume_id
             IN  /\ resumes'[id].date_applied = ana[c].body.date_applied
                 /\ resumes'[id].status =
                       IF resumes[id].status = "Writing CV" THEN "Applied"
                       ELSE resumes[id].status ]_vars

----------------------------------------------------------------------------
(* POST /resume/analyze-skills *)

\* What the provider does on a skills analysis call.
SkProviderOutputs ==
    { [kind |-> "raises"],
      [kind |-> "content", valid_json |-> FALSE, json |-> EmptyDict],
      [kind |-> "content", valid_json |-> TRUE,
       json |-> [added_skills |-> "sql", missing_skills |-> "go"]] }

\* data.get('resumeId'): the 400 for a missing or zero id is raised inside
\* the try block and leaves as a 500.
StartAnalyzeSkills(c, header, resume_id) ==
    LET auth == GetUserId(header)
        a == [IdleAnalysis EXCEPT !.endpoint = "analyze-skills", !.header = header]
    IN  /\ ana[c].pc \in {"idle", "done"}
        /\ started < MaxRequests
        /\ started' = started + 1
        /\ ana' = [ana EXCEPT ![c] =
              IF auth.status_code = 401
              THEN Answer(a, 401, [detail |-> auth.detail])
              ELSE IF resume_id = 0
              THEN Answer([a EXCEPT !.user_id = auth.user_id], 500,
                          [detail |-> "400: Resume ID is required"])
              ELSE [a EXCEPT !.user_id = auth.user_id, !.resume_id = resume_id,
                             !.credits_before = credits[c], !.pc = "sk_fetch"]]
        /\ UNCHANGED <<tables, ingestVars, credits>>
        /\ checked' = EmptyDict

\* select('experience_id, text, relevance_score') of a point
PointColumns(point) ==
    [experience_id |-> point.experience_id, text |-> point.text,
     relevance_score |-> Column(point, "relevance_score")]

\* exp_points = [p for p in experience_points.data if p['experience_id'] == exp['id']]
ExpPoints(data, exp) == SelectSeq(data, LAMBDA p : p.experience_id = exp.id)

\* current_resume of analyze_skills, for the experiences and the points as
\* the two selects returned them
CurrentResume(resume_data, experiences, points) ==
    [skills |-> Column(resume_data, "skills"),
     professional_experience |->
        [k \in 1..Len(experiences) |->
            [points |-> ExpPoints([j \in 1..Len(points) |-> PointColumns(points[j])],
                                  experiences[k])] @@ experiences[k]],
     education |-> Column(resume_data, "education")]

\* The three selects of analyze_skills and the context built from them.
\* The points are selected with eq('experience_id', resume_id).  single() on
\* no row raises; so does any of the selects when the backend fails.  The
\* 400 for an Application without job description leaves as a 500.
SkFetch(c) ==
    LET a == ana[c]
    IN  /\ a.pc = "sk_fetch"
        /\ \/ ana' = [ana EXCEPT ![c] = Answer(a, 500, [detail |-> "persistence error"])]
           \/ /\ a.resume_id \in DOMAIN resumes
              /\ \E experiences \in Orders(ExperiencesOf(a.resume_id)),
                    points \in Orders(PointsOf(a.resume_id)) :
                    ana' = [ana EXCEPT ![c] =
                       IF Column(resumes[a.resume_id], "job_description") \in {None, ""}
                       THEN Answer(a, 500, [detail |-> "400: Job description is required"])
                       ELSE [a EXCEPT !.resume_data =
                                          Project(resumes[a.resume_id],
                                                  {"job_description", "skills", "education"}),
                                      !.context = CurrentResume(resumes[a.resume_id],
                                                                experiences, points),
                                      !.pc = "sk_credits"]]
        /\ UNCHANGED <<tables, ingestVars, started, credits>>
        /\ checked' = EmptyDict

\* BaseService.check_credits of a credit-requiring service: it returns True
\* without a database call for a caller without a user_id; a refusal
\* leaves as a 500.
CheckCredits(c, a, next) ==
    LET rpc == CheckAndUpdateAiCredits(credits[c])
    IN  IF a.user_id = None
        THEN /\ ana' = [ana EXCEPT ![c] = [a EXCEPT !.pc = next]]
             /\ UNCHANGED credits
        ELSE /\ credits' = [credits EXCEPT ![c] = rpc.credits]
             /\ ana' = [ana EXCEPT ![c] =
                   IF rpc.data
                   THEN [a EXCEPT !.credit_check = "granted", !.pc = next]
                   ELSE Answer([a EXCEPT !.credit_check = "refused"], 500,
                               [detail |-> "Insufficient credits"])]

\* check_credits in SkillsAnalysisService.analyze_skills
SkCheckCredits(c) ==
    /\ ana[c].pc = "sk_credits"
    /\ CheckCredits(c, ana[c], "sk_call")
    /\ UNCHANGED <<tables, ingestVars, started>>
    /\ checked' = EmptyDict

\* The provider call of analyze_skills and json.loads of its answer; a raise
\* leaves as a 500.
SkCallProvider(c) ==
    LET a == ana[c]
    IN  /\ a.pc = "sk_call"
        /\ \E out \in SkProviderOutputs :
              ana' = [ana EXCEPT ![c] =
                IF out.kind = "content" /\ out.valid_json
                THEN [a EXCEPT !.provider_called = TRUE, !.analysis = out.json,
                               !.pc = "sk_log"]
                ELSE Answer([a EXCEPT !.provider_called = TRUE], 500,
                            [detail |-> "API Call Error"])]
        /\ UNCHANGED <<tables, ingestVars, started, credits>>
        /\ checked' = EmptyDict

\* log_ai_request('skills_analysis', 'success'), then return analysis
SkLogSuccess(c) ==
    LET a == ana[c]
    IN  /\ a.pc = "sk_log"
        /\ ai_requests_log' = LogAiRequest(ai_requests_log, a.user_id, "skills_analysis",
                                           "success", TRUE)
        /\ ana' = [ana EXCEPT ![c] = [a EXCEPT !.logged = Logged(a, "success"),
                                               !.validated = TRUE, !.pc = "sk_store"]]
        /\ UNCHANGED <<resumes, ingestVars, started, credits>>
        /\ checked' = EmptyDict

\* update({'skills_analysis': analysis_result}).eq('id', resume_id), return
SkStore(c) ==
    LET a == ana[c]
    IN  /\ a.pc = "sk_store"
        /\ resumes' = UpdateById(resumes, a.resume_id, [skills_analysis |-> a.analysis])
        /\ ana' = [ana EXCEPT ![c] = Answer(a, 200, [analysis |-> a.analysis])]
        /\ UNCHANGED <<ai_requests_log, ingestVars, started, credits>>
        /\ checked' = EmptyDict

\* The insert of the log entry or the update of the result raises.
SkDbFails(c) ==
    LET a == ana[c]
    IN  /\ a.pc = "sk_store" \/ (a.pc = "sk_log" /\ a.user_id # None)
        /\ ana' = [ana EXCEPT ![c] = Answer(a, 500, [detail |-> "persistence error"])]
        /\ UNCHANGED <<tables, ingestVars, started, credits>>
        /\ checked' = EmptyDict

NextSkills ==
    \/ \E c \in Users, resume_id \in {0} \cup ResumeIds :
          \E header \in HeadersOf(c) : StartAnalyzeSkills(c, header, resume_id)
    \/ \E c \in Users : SkFetch(c)
    \/ \E c \in Users : SkCheckCredits(c)
    \/ \E c \in Users : SkCallProvider(c)
    \/ \E c \in Users : SkLogSuccess(c)
    \/ \E c \in Users : SkStore(c)
    \/ \E c \in Users : SkDbFails(c)

SpecSkills == InitAnalysis /\ [][NextSkills]_vars

----------------------------------------------------------------------------
(* Properties of the skills analysis *)

\* The points of a context entry, as the (experience_id, text) pairs.
ContextPoints(entry) ==
    { [experience_id |-> entry.points[j].experience_id, text |-> entry.points[j].text] :
        j \in 1..Len(entry.points) }

\* The ExperiencePoint rows of an experience, as (experience_id, text) pairs.
OwnPoints(experience_id) ==
    { [experience_id |-> p.experience_id, text |-> p.text] : p \in PointsOf(experience_id) }

\* C22: the context analyze-skills sends to the provider holds every
\* ProfessionalExperience of the Application, each with exactly the
\* ExperiencePoint rows whose experience_id is its id.
C22_ContextCarriesOwnPoints ==
    \A c \in Users :
        (ana[c].endpoint = "analyze-skills" /\ ana[c].provider_called) =>
            LET entries == ana[c].context.professional_experience
            IN  \A exp \in ExperiencesOf(ana[c].resume_id) :
                   \E k \in 1..Len(entries) :
                       /\ entries[k].id = exp.id
                       /\ ContextPoints(entries[k]) = OwnPoints(exp.id)

----------------------------------------------------------------------------
(* POST /resume/update-section and POST /resume/update-experience-points *)

\* The section titles and contents an editing client sends.
SectionTitles == {"executive_summary"}

SectionContents == {"Rewritten summary"}

\* update_section, first call: select('ai_improved_sections').eq('id', resume_id);
\* no row is a 404 response, a raise a 500 response.
UsSelect(c, resume_id, section, content) ==
    LET a == StartEdit("update-section", resume_id,
                       [sectionTitle |-> section, content |-> content])
    IN  /\ ana[c].pc \in {"idle", "done"}
        /\ started < MaxRequests
        /\ started' = started + 1
        /\ \/ ana' = [ana EXCEPT ![c] =
                 IF resume_id \in DOMAIN resumes
                 THEN [a EXCEPT !.resume_data =
                                   [ai_improved_sections |->
                                       DictGet(resumes[resume_id], "ai_improved_sections",
                                               EmptyDict)],
                                !.pc = "us_update"]
                 ELSE Answer(a, 404, [detail |-> "Resume not found"])]
           \/ ana' = [ana EXCEPT ![c] = Answer(a, 500, [detail |-> "persistence error"])]
        /\ UNCHANGED <<tables, ingestVars, credits>>
        /\ checked' = EmptyDict

\* update_section, second call: current_improved[section] = True and
\* update({section: content, 'ai_improved_sections': current_improved}) by id
UsUpdate(c) ==
    LET a == ana[c]
        current_improved == DictMerge(a.resume_data.ai_improved_sections,
                                      (a.body.sectionTitle :> TRUE))
    IN  /\ a.pc = "us_update"
        /\ \/ /\ resumes' = UpdateById(resumes, a.resume_id,
                                (a.body.sectionTitle :> a.body.content) @@
                                [ai_improved_sections |-> current_improved])
              /\ ana' = [ana EXCEPT ![c] =
                    Answer(a, 200, [message |-> "Section updated successfully",
                                    improved_sections |-> current_improved])]
           \/ /\ UNCHANGED resumes
              /\ ana' = [ana EXCEPT ![c] = Answer(a, 500, [detail |-> "persistence error"])]
        /\ UNCHANGED <<ai_requests_log, ingestVars, started, credits>>
        /\ checked' = EmptyDict

\* The experience ids a client sends: those that exist and one that does not.
ExperienceIds == DOMAIN professional_experiences \cup {NextId(professional_experiences)}

\* The bodies of update-experience-points: points to rewrite and ids to delete.
PointEdits ==
    { [modifiedPoints |-> <<>>, deletedPoints |-> {3}],
      [modifiedPoints |-> <<[point_id |-> 1, new_text |-> "led org",
                             relevance_score |-> 5]>>,
       deletedPoints |-> {}],
      [modifiedPoints |-> <<[point_id |-> 2, new_text |-> "cut spend",
                             relevance_score |-> 4]>>,
       deletedPoints |-> {3}] }

\* delete().in_('id', deleted_points)
DeleteIn(table, ids) == [id \in DOMAIN table \ ids |-> table[id]]

\* update_experience_points, first call: the delete, made when
\* deleted_points is not empty.  A raise leaves as a 500.
UpDelete(c, experience_id, edit) ==
    LET a == [StartEdit("update-experience-points", 0,
                        [experienceId |-> experience_id] @@ edit)
                EXCEPT !.analysis = edit.modifiedPoints, !.pc = "up_points"]
    IN  /\ ana[c].pc \in {"idle", "done"}
        /\ started < MaxRequests
        /\ started' = started + 1
        /\ \/ /\ experience_points' = DeleteIn(experience_points, edit.deletedPoints)
              /\ ana' = [ana EXCEPT ![c] = a]
           \/ /\ edit.deletedPoints # {}
              /\ UNCHANGED experience_points
              /\ ana' = [ana EXCEPT ![c] = Answer(a, 500, [detail |-> "persistence error"])]
        /\ UNCHANGED <<parsed_resumes, resumes, professional_experiences, ai_requests_log,
                       req, providerCalls, fetched, rateVars, signupVars, credits>>
        /\ checked' = EmptyDict

\* update_experience_points, one turn of the loop: the update of text and
\* relevance_score of the next modified point by its id
UpPoint(c) ==
    LET a == ana[c]
        point == Head(a.analysis)
    IN  /\ a.pc = "up_points"
        /\ Len(a.analysis) > 0
        /\ \/ /\ experience_points' =
                    UpdateById(experience_points, point.point_id,
                               [text |-> point.new_text,
                                relevance_score |-> point.relevance_score])
              /\ ana' = [ana EXCEPT ![c] = [a EXCEPT !.analysis = Tail(a.analysis)]]
           \/ /\ UNCHANGED experience_points
              /\ ana' = [ana EXCEPT ![c] = Answer(a, 500, [detail |-> "persistence error"])]
        /\ UNCHANGED <<parsed_resumes, resumes, professional_experiences, ai_requests_log,
                       req, providerCalls, fetched, rateVars, signupVars, started, credits>>
        /\ checked' = EmptyDict

\* update_experience_points, last call: update({'is_improved': True}) of the
\* experience by id
UpImproved(c) ==
    LET a == ana[c]
    IN  /\ a.pc = "up_points"
        /\ Len(a.analysis) = 0
        /\ \/ /\ professional_experiences' =
                    UpdateById(professional_experiences, a.body.experienceId,
                               [is_improved |-> TRUE])
              /\ ana' = [ana EXCEPT ![c] =
                    Answer(a, 200, [message |-> "Experience points updated successfully"])]
           \/ /\ UNCHANGED professional_experiences
              /\ ana' = [ana EXCEPT ![c] = Answer(a, 500, [detail |-> "persistence error"])]
        /\ UNCHANGED <<parsed_resumes, resumes, experience_points, ai_requests_log,
                       req, providerCalls, fetched, rateVars, signupVars, started, credits>>
        /\ checked' = EmptyDict

----------------------------------------------------------------------------
(* PUT /save-cover-letter/{resume_id} and POST /generate-cover-letter *)

Letters == {"Dear team"}

\* datetime.now().isoformat()
IsoNow == <<"iso", now>>

StartSaveCoverLetter(c, header, resume_id, edited_letter) ==
    LET auth == GetUserId(header)
        a == [IdleAnalysis EXCEPT !.endpoint = "save-cover-letter", !.header = header,
                                  !.body = [edited_letter |-> edited_letter]]
    IN  /\ ana[c].pc \in {"idle", "done"}
        /\ started < MaxRequests
        /\ started' = started + 1
        /\ ana' = [ana EXCEPT ![c] =
              IF auth.status_code = 401
              THEN Answer(a, 401, [detail |-> auth.detail])
              ELSE [a EXCEPT !.user_id = auth.user_id, !.resume_id = resume_id,
                             !.pc = "sc_select"]]
        /\ UNCHANGED <<tables, ingestVars, credits>>
        /\ checked' = EmptyDict

\* save_cover_letter, first call: select('metadata').eq('id', resume_id).single();
\* it raises on no row, and a raise leaves as a 500.
\* existing_metadata = data.get('metadata', {}) or {}
ScSelect(c) ==
    LET a == ana[c]
    IN  /\ a.pc = "sc_select"
        /\ \/ /\ a.resume_id \in DOMAIN resumes
              /\ ana' = [ana EXCEPT ![c] =
                    [a EXCEPT !.resume_data =
                                 [metadata |-> DictGet(resumes[a.resume_id], "metadata",
                                                       EmptyDict)],
                              !.pc = "sc_update"]]
           \/ ana' = [ana EXCEPT ![c] =
                 Answer(a, 500, [detail |-> "Error saving cover letter"])]
        /\ UNCHANGED <<tables, ingestVars, started, credits>>
        /\ checked' = EmptyDict

\* save_cover_letter, second call: the update of cover_letter and of the
\* merged metadata by id
ScUpdate(c) ==
    LET a == ana[c]
        updated_metadata == DictMerge(a.resume_data.metadata,
                                      [last_edited |-> IsoNow, edited_by_user |-> TRUE])
    IN  /\ a.pc = "sc_update"
        /\ \/ /\ resumes' = UpdateById(resumes, a.resume_id,
                                [cover_letter |-> a.body.edited_letter,
                                 metadata |-> updated_metadata])
              /\ ana' = [ana EXCEPT ![c] =
                    Answer(a, 200, [message |-> "Cover letter updated successfully"])]
           \/ /\ UNCHANGED resumes
              /\ ana' = [ana EXCEPT ![c] =
                    Answer(a, 500, [detail |-> "Error saving cover letter"])]
        /\ UNCHANGED <<ai_requests_log, ingestVars, started, credits>>
        /\ checked' = EmptyDict

\* The tones a client asks for; the answers are left empty.
Tones == {"professional"}

\* create_cover_letter: CoverLetterRequest carries resume_id, tone, answers
\* and job_description.
StartGenerateCoverLetter(c, header, resume_id, tone) ==
    LET auth == GetUserId(header)
        a == [IdleAnalysis EXCEPT !.endpoint = "generate-cover-letter", !.header = header,
                                  !.body = [tone |-> tone, answers |-> EmptyDict,
                                            job_description |-> "Build things"]]
    IN  /\ ana[c].pc \in {"idle", "done"}
        /\ started < MaxRequests
        /\ started' = started + 1
        /\ ana' = [ana EXCEPT ![c] =
              IF auth.status_code = 401
              THEN Answer(a, 401, [detail |-> auth.detail])
              ELSE [a EXCEPT !.user_id = auth.user_id, !.resume_id = resume_id,
                             !.credits_before = credits[c], !.pc = "gc_credits"]]
        /\ UNCHANGED <<tables, ingestVars, credits>>
        /\ checked' = EmptyDict

\* check_credits in generate_cover_letter: the 402 leaves the route as a 500.
GcCheckCredits(c) ==
    /\ ana[c].pc = "gc_credits"
    /\ CheckCredits(c, ana[c], "gc_select")
    /\ UNCHANGED <<tables, ingestVars, started>>
    /\ checked' = EmptyDict

\* generate_cover_letter: select('contact_information').single() and
\* get_professional_experience; a raise leaves as a 500.  The calls of
\* log_ai_request in this service are not awaited: nothing is logged.
GcSelect(c) ==
    LET a == ana[c]
    IN  /\ a.pc = "gc_select"
        /\ \/ /\ a.resume_id \in DOMAIN resumes
              /\ \E experience \in GetProfessionalExperience(a.resume_id) :
                    ana' = [ana EXCEPT ![c] =
                       [a EXCEPT !.resume_data =
                                    Project(resumes[a.resume_id], {"contact_information"}),
                                 !.context = [experience |-> experience],
                                 !.pc = "gc_call"]]
           \/ ana' = [ana EXCEPT ![c] = Answer(a, 500, [detail |-> "persistence error"])]
        /\ UNCHANGED <<tables, ingestVars, started, credits>>
        /\ checked' = EmptyDict

\* _generate_cover_letter_content: the provider answers with a letter or the
\* call raises.
GcCallProvider(c) ==
    LET a == ana[c]
    IN  /\ a.pc = "gc_call"
        /\ \/ \E cover_letter \in Letters :
                 ana' = [ana EXCEPT ![c] =
                    [a EXCEPT !.provider_called = TRUE, !.analysis = <<cover_letter>>,
                              !.pc = "gc_update"]]
           \/ ana' = [ana EXCEPT ![c] =
                 Answer([a EXCEPT !.provider_called = TRUE], 500,
                        [detail |-> "Failed to generate cover letter"])]
        /\ UNCHANGED <<tables, ingestVars, started, credits>>
        /\ checked' = EmptyDict

\* generate_cover_letter: the update of cover_letter and metadata by id; the
\* metadata column is replaced by tone, answers and generated_at.
GcUpdate(c) ==
    LET a == ana[c]
        metadata == [tone |-> a.body.tone, answers |-> a.body.answers,
                     generated_at |-> IsoNow]
    IN  /\ a.pc = "gc_update"
        /\ \/ /\ resumes' = UpdateById(resumes, a.resume_id,
                                [cover_letter |-> a.analysis[1], metadata |-> metadata])
              /\ ana' = [ana EXCEPT ![c] =
                    Answer(a, 200, [cover_letter |-> a.analysis[1], metadata |-> metadata])]
           \/ /\ UNCHANGED resumes
              /\ ana' = [ana EXCEPT ![c] = Answer(a, 500, [detail |-> "persistence error"])]
        /\ UNCHANGED <<ai_requests_log, ingestVars, started, credits>>
        /\ checked' = EmptyDict

----------------------------------------------------------------------------
(* The editing endpoints together *)

\* The tokens a client holds: its own, and a token without subject.
EditHeaders(c) == { Some(<<"Bearer", Token(c)>>), Some(<<"Bearer", "jwt-nosub">>) }

NextEdits ==
    \/ \E c \in Users, resume_id \in ResumeIds, section \in SectionTitles,
          content \in SectionContents : UsSelect(c, resume_id, section, content)
    \/ \E c \in Users : UsUpdate(c)
    \/ \E c \in Users, experience_id \in ExperienceIds, edit \in PointEdits :
          UpDelete(c, experience_id, edit)
    \/ \E c \in Users : UpPoint(c)
    \/ \E c \in Users : UpImproved(c)
    \/ \E c \in Users, resume_id \in ResumeIds, status \in Statuses :
          UpdateApplicationStatus(c, resume_id, status)
    \/ \E c \in Users, resume_id \in ResumeIds, date_applied \in Dates :
          UdSelect(c, resume_id, date_applied)
    \/ \E c \in Users : UdUpdate(c)
    \/ \E c \in Users, resume_id \in ResumeIds, edited_letter \in Letters :
          \E header \in EditHeaders(c) :
              StartSaveCoverLetter(c, header, resume_id, edited_letter)
    \/ \E c \in Users : ScSelect(c)
    \/ \E c \in Users : ScUpdate(c)
    \/ \E c \in Users, resume_id \in ResumeIds, tone \in Tones :
          \E header \in EditHeaders(c) :
              StartGenerateCoverLetter(c, header, resume_id, tone)
    \/ \E c \in Users : GcCheckCredits(c)
    \/ \E c \in Users : GcSelect(c)
    \/ \E c \in Users : GcCallProvider(c)
    \/ \E c \in Users : GcUpdate(c)
    \/ \E c \in Users, resume_id \in ResumeIds :
          \E header \in EditHeaders(c) : StartAnalyzeSkills(c, header, resume_id)
    \/ \E c \in Users : SkFetch(c)
    \/ \E c \in Users : SkCheckCredits(c)
    \/ \E c \in Users : SkCallProvider(c)
    \/ \E c \in Users : SkLogSuccess(c)
    \/ \E c \in Users : SkStore(c)
    \/ \E c \in Users : SkDbFails(c)
    \/ \E c \in Users, resume_id \in ResumeIds :
          \E header \in EditHeaders(c) : StartAnalyzeJd(c, header, resume_id)
    \/ \E c \in Users : AjGetResume(c)
    \/ \E c \in Users : AjSetInProgress(c)
    \/ \E c \in Users : AjAnalyze(c)
    \/ \E c \in Users : AjLogSuccess(c)
    \/ \E c \in Users : AjLogSuccessFails(c)
    \/ \E c \in Users : AjLogFailed(c)
    \/ \E c \in Users : AjStore(c)
    \/ \E c \in Users : AjDbFails(c)
    \/ \E c \in Users : AjMarkFailed(c)

SpecEdits == InitAnalysis /\ [][NextEdits]_vars

----------------------------------------------------------------------------
(* Properties of the editing endpoints *)

\* The step belongs to a request of client c.
Acts(c) == ana'[c] # ana[c]

\* The owner of an experience and of a point, through the rows they hang on.
ExperienceOwner(experience_id) ==
    resumes[professional_experiences[experience_id].resume_id].user_id

PointOwner(point_id) == ExperienceOwner(experience_points[point_id].experience_id)

\* C24: no step of a request changes a field of an Application, a
\* ProfessionalExperience or an ExperiencePoint that another user owns.  (A
\* client holds only its own tokens, so a request authenticated as a user
\* comes from that user's client.)
C24_OnlyOwnerChangesRows ==
    [][\A c \in Users :
          Acts(c) =>
            /\ \A id \in DOMAIN resumes :
                  resumes'[id] # resumes[id] => resumes[id].user_id = c
            /\ \A id \in DOMAIN professional_experiences :
                  professional_experiences'[id] # professional_experiences[id]
                      => ExperienceOwner(id) = c
            /\ \A id \in DOMAIN experience_points :
                  (id \notin DOMAIN experience_points'
                     \/ experience_points'[id] # experience_points[id])
                      => PointOwner(id) = c]_vars

----------------------------------------------------------------------------
(* The status metadata with two Applications *)

\* The Application of a second user, u2, built by parse-resume from an
\* upload of B2 and then given a cover letter by generate-cover-letter.
SecondForm == [companyApplied |-> "Bolt", roleApplied |-> "Analyst",
               jobDescription |-> "Analyse things"]

SecondDoc == Doc(<<SecContact, SecSummary, SecEducationFull>>)

GeneratedMetadata == [tone |-> "professional", answers |-> EmptyDict,
                      generated_at |-> <<"iso", 0>>]

\* The resumes table with u1's Application from `doc` and u2's Application.
SeedResumes(doc) ==
    LET first == Insert(<<>>, DictMerge(InitialResumeData("u1", SeedForm),
                                        UpdateData(SectionsOf(doc))))
        both == Insert(first, DictMerge(InitialResumeData("u2", SecondForm),
                                        UpdateData(SectionsOf(SecondDoc))))
    IN  UpdateById(both, 2, [cover_letter |-> "Dear team",
                             metadata |-> GeneratedMetadata])

\* The state after both users have had an upload ingested and u2 a cover
\* letter generated, for one credit.
InitTwoApplications ==
    \E doc \in SeedDocs :
        /\ parsed_resumes =
              Insert(Insert(<<>>, [user_id |-> "u1", file_hash |-> Md5("B1"),
                                   parsed_data |-> doc, original_filename |-> "cv.pdf"]),
                     [user_id |-> "u2", file_hash |-> Md5("B2"),
                      parsed_data |-> SecondDoc, original_filename |-> "cv.pdf"])
        /\ resumes = SeedResumes(doc)
        /\ professional_experiences = SeedExperiences(ProfExp(SectionsOf(doc)))
        /\ experience_points = SeedPoints(ProfExp(SectionsOf(doc)), 1, <<>>)
        /\ ai_requests_log =
              Insert(Insert(<<>>, [user_id |-> "u1", service_name |-> "resume_parsing",
                                   status |-> "success", credits_used |-> FALSE]),
                     [user_id |-> "u2", service_name |-> "resume_parsing",
                      status |-> "success", credits_used |-> FALSE])
        /\ req = [r \in Reqs |-> IdleReq]
        /\ providerCalls = [h \in Hashes |-> 1]
        /\ started = 0
        /\ fetched = EmptyDict
        /\ ana = [c \in Users |-> IdleAnalysis]
        /\ credits = [u \in Users |-> IF u = "u2" THEN InitialCredits - 1
                                      ELSE InitialCredits]
        /\ checked = EmptyDict
        /\ InitAccounts

\* analyze-jd and the two cover letter endpoints, which write metadata.
NextMetadata ==
    \/ \E c \in Users, resume_id \in ResumeIds :
          \E header \in PollHeaders(c) : StartAnalyzeJd(c, header, resume_id)
    \/ \E c \in Users : AjGetResume(c)
    \/ \E c \in Users : AjSetInProgress(c)
    \/ \E c \in Users : AjAnalyze(c)
    \/ \E c \in Users : AjLogSuccess(c)
    \/ \E c \in Users : AjLogSuccessFails(c)
    \/ \E c \in Users : AjLogFailed(c)
    \/ \E c \in Users : AjStore(c)
    \/ \E c \in Users : AjDbFails(c)
    \/ \E c \in Users : AjMarkFailed(c)
    \/ \E c \in Users, resume_id \in ResumeIds, edited_letter \in Letters :
          \E header \in PollHeaders(c) :
              StartSaveCoverLetter(c, header, resume_id, edited_letter)
    \/ \E c \in Users : ScSelect(c)
    \/ \E c \in Users : ScUpdate(c)

SpecMetadata == InitTwoApplications /\ [][NextMetadata]_vars

----------------------------------------------------------------------------
(* Properties of the status metadata *)

\* The step is update_resume_status(resume_id, 'analysis', 'failed',
\* {'error': ...}) of request c taking effect on its Application.
StatusWrittenWithMetadata(c) ==
    /\ ana[c].pc = "aj_fail"
    /\ ana'[c].pc = "done"
    /\ ana[c].resume_id \in DOMAIN resumes
    /\ resumes'[ana[c].resume_id] # resumes[ana[c].resume_id]

\* C25: update_resume_status called with metadata stores the union of the
\* previous metadata of the same Application and the new keys, and so no key
\* or value of another Application's metadata.
C25_MetadataMergedWithOwn ==
    [][\A c \in Users :
          StatusWrittenWithMetadata(c) =>
             resumes'[ana[c].resume_id].metadata =
                DictMerge(DictGet(resumes[ana[c].resume_id], "metadata", EmptyDict),
                          [error |-> ana[c].error])]_vars

====
